---- MODULE Spec2Model ----
(***************************************************************************)
(* MafLib dense linear algebra: the pivoted LU, Cholesky and Householder   *)
(* QR factorizations of include/MafLib/math/linalg, as state machines.     *)
(*                                                                         *)
(* Numbers are exact rationals [n, d] in lowest terms with d > 0: the      *)
(* model follows the algorithms in exact arithmetic, floating-point        *)
(* rounding is not represented.  A Matrix is the record                    *)
(* [rows, cols, data] with data the row-major buffer (a sequence), and     *)
(* indices are 0-based as in the source.                                   *)
(***************************************************************************)
EXTENDS Integers, Sequences, FiniteSets, TLC

VARIABLES
  op,       \* the function the client calls: "plu", "cholesky" or "qr"
  pc,       \* position of the running call
  err,      \* kind of the exception that ended the call ("none" if none)
  T,        \* element type of the caller's matrix
  B,        \* panel width used by the blocked loops
  matrix,   \* the caller's matrix (the argument of the call)
  given,    \* the caller's matrix as it was when the call started
  _U,       \* plu: the working matrix
  P,        \* plu: permutation vector
  L,        \* plu / cholesky: the L factor under construction
  U,        \* plu: the extracted U factor
  ib,       \* plu: first column of the current panel
  i,        \* plu: current column
  src,      \* plu: for each row of _U, the input row it was derived from
  converted,\* cholesky: the converted copy of a non-floating input
  jj,       \* cholesky: first column of the current panel
  j_col,    \* cholesky / qr: current column j
  full_Q,   \* qr: flag of the caller
  full_R,   \* qr: flag of the caller
  native,   \* qr: TRUE when built with the Accelerate backend
  A_work,   \* qr: the working matrix
  A_lap,    \* qr: the column-major copy handed to LAPACK
  tau,      \* qr: the scalars of the reflectors
  R,        \* qr: the R factor
  Q_full,   \* qr: the m x m matrix the reflectors are applied to
  Q,        \* qr: the Q factor
  built,    \* Matrix object: TRUE once a constructor has returned
  calls,    \* Matrix object: number of calls made on it so far
  call,     \* the last call made: its name and its arguments
  ret,      \* what the last call returned
  mv,       \* a MatrixView over the buffer of matrix
  window,   \* the arguments of the view() call that returned mv
  x_buf,    \* the buffer under the vector view x
  x_view,   \* the VectorView x
  y_buf,    \* the buffer under the vector view y
  y_view,   \* the VectorView y
  Tx,       \* element type of the vector views
  limit,    \* the size from which the build runs a quadratic loop in parallel
  pending,  \* iterations of the running parallel loop that have not run yet
  y_vec,    \* gemv: the output vector y under construction
  running,  \* the iterations under way, each with the shared data as it read them
  forked,   \* the shared data as they were when the parallel loop was entered
  ResultType, \* plu / cholesky: the template argument ResultType ("void": none given)
  T_arg,    \* plu / cholesky: element type of the matrix handed to detail::_plu or
            \* detail::_cholesky, and so of the matrices they return
  solver    \* Optimizer::solve: the arguments and the locals of the running call

\* the objects a factorization never touches
\* the state of a parallel loop
parVars == <<limit, pending, y_vec, running, forked>>
objVars ==
  <<built, calls, call, ret, mv, window, x_buf, x_view, y_buf, y_view, Tx, parVars>>
typeVars == <<ResultType, T_arg, solver>>
inputVars == <<op, T, B, matrix, given, objVars, ResultType>>
callVars == <<inputVars, T_arg, solver>>
pluVars == <<_U, P, U, ib, i, src>>
cholVars == <<converted, jj>>
qrVars == <<full_Q, full_R, native, A_work, A_lap, tau, R, Q_full, Q>>

\* the locals and flags of the factorizations
factVars == <<B, given, pluVars, L, cholVars, j_col, qrVars, parVars, typeVars>>

vars == <<pc, err, callVars, pluVars, L, cholVars, j_col, qrVars>>

-----------------------------------------------------------------------------
(* Bounds of the model *)

MaxSize == 12    \* enumerated inputs: number of cells + sum of entry magnitudes
MaxVal == 2      \* enumerated inputs: largest magnitude of an entry
MaxDim == 3      \* Matrix objects and views: largest ordinary dimension
MaxCalls == 3    \* Matrix objects: calls made on one object after construction
SIZE_BITS == 4   \* width of size_t in the model (64 in the build)
MaxIterations == 2  \* optimizers: largest iteration limit handed to solve

(* Program constants *)

BLOCK_SIZE == 64
EPSILON_INV == 1000000        \* 1 / EPSILON, EPSILON = 1e-6
PIVOT_TOL_INV == 1000000000   \* 1 / 1e-9, the near-zero tolerance of plu
OMP_QUADRATIC_LIMIT == 250000 \* 500 * 500
OMP_LINEAR_LIMIT == 500000
FLT_EPSILON_INV == 8388608    \* 1 / std::numeric_limits<float>::epsilon(), 2^23

-----------------------------------------------------------------------------
(* Exact rational arithmetic *)

Abs(x) == IF x < 0 THEN -x ELSE x

Min(a, b) == IF a < b THEN a ELSE b

RECURSIVE GCD(_, _)
GCD(a, b) == IF b = 0 THEN a ELSE GCD(b, a % b)

Rat(n, d) ==
  LET g == GCD(Abs(n), Abs(d))
      s == IF d < 0 THEN -1 ELSE 1
  IN  [n |-> s * (n \div g), d |-> s * (d \div g)]

Int2Rat(k) == [n |-> k, d |-> 1]
Zero == Int2Rat(0)
One == Int2Rat(1)

RNeg(a) == [n |-> -a.n, d |-> a.d]
RAbs(a) == [n |-> Abs(a.n), d |-> a.d]

RAdd(a, b) ==
  IF a.n = 0 THEN b
  ELSE IF b.n = 0 THEN a
  ELSE LET g == GCD(a.d, b.d)
           l == (a.d \div g) * b.d
       IN  Rat(a.n * (l \div a.d) + b.n * (l \div b.d), l)

RSub(a, b) == RAdd(a, RNeg(b))

RMul(a, b) ==
  IF a.n = 0 \/ b.n = 0 THEN Zero
  ELSE LET g1 == GCD(Abs(a.n), b.d)
           g2 == GCD(Abs(b.n), a.d)
       IN  [n |-> (a.n \div g1) * (b.n \div g2),
            d |-> (a.d \div g2) * (b.d \div g1)]

RInv(a) == IF a.n < 0 THEN [n |-> -a.d, d |-> -a.n] ELSE [n |-> a.d, d |-> a.n]

RDiv(a, b) == RMul(a, RInv(b))

RSign(a) == IF a.n > 0 THEN 1 ELSE IF a.n < 0 THEN -1 ELSE 0

RLt(a, b) == RSign(RSub(a, b)) < 0
RLe(a, b) == RSign(RSub(a, b)) <= 0

\* a < 1/inv for a >= 0, without forming a.n * inv
LtInv(a, inv) == a.n <= (a.d - 1) \div inv

\* util::is_close(v1, v2, epsilon): |v1 - v2| < epsilon, epsilon = 1/epsInv
is_close(v1, v2, epsInv) == LtInv(RAbs(RSub(v1, v2)), epsInv)

\* no Optimizer object exists
NoSolver == [method |-> "none"]

-----------------------------------------------------------------------------
(* Matrix<T>: _rows, _cols and the row-major buffer _data *)

EmptyMatrix == [rows |-> 0, cols |-> 0, data |-> <<>>]

\* Matrix(rows, cols): the buffer is resized to rows*cols value-initialised
\* elements
NewMatrix(r, c) == [rows |-> r, cols |-> c, data |-> [k \in 1..(r * c) |-> Zero]]

_get_index(M, r, c) == (r * M.cols) + c

At(M, r, c) == M.data[_get_index(M, r, c) + 1]

SetAt(M, r, c, v) == [M EXCEPT !.data[_get_index(M, r, c) + 1] = v]

RowOf(M, k) == (k - 1) \div M.cols
ColOf(M, k) == (k - 1) % M.cols

is_square(M) == M.rows = M.cols

identity_matrix(n) ==
  [rows |-> n, cols |-> n,
   data |-> [k \in 1..(n * n) |-> IF (k - 1) \div n = (k - 1) % n THEN One ELSE Zero]]

cast_without_values(M) == NewMatrix(M.rows, M.cols)

\* Matrix<T>::cast<U>() and the copy constructor: same shape, same values
\* (every modelled value is exactly representable in the target type)
cast(M) == [rows |-> M.rows, cols |-> M.cols, data |-> [k \in 1..Len(M.data) |-> M.data[k]]]

-----------------------------------------------------------------------------
(* Inputs: every integer matrix whose size (cells plus the sum of the entry
   magnitudes) and entry magnitudes are bounded, built cell by cell; and the
   matrices the repository's tests use *)

RECURSIVE Buffers(_, _)
Buffers(len, w) ==
  IF len = 0 THEN {<<>>}
  ELSE UNION {{<<Int2Rat(v)>> \o s : s \in Buffers(len - 1, w - Abs(v))} :
              v \in {x \in (-MaxVal)..MaxVal : Abs(x) <= w}}

MatricesOfSize(r, c, size) ==
  IF r * c > size THEN {}
  ELSE {[rows |-> r, cols |-> c, data |-> d] : d \in Buffers(r * c, size - (r * c))}

Matrices(r, c) == MatricesOfSize(r, c, MaxSize)

Dims == {n \in 1..MaxSize : n * n <= MaxSize}

\* a matrix given by its rows of integers
FromRows(rs) ==
  [rows |-> Len(rs), cols |-> Len(rs[1]),
   data |-> [k \in 1..(Len(rs) * Len(rs[1])) |->
               Int2Rat(rs[((k - 1) \div Len(rs[1])) + 1][((k - 1) % Len(rs[1])) + 1])]]

\* values at the edge of the tolerances: Tiny < 1e-9, Big * Tiny > 1e-6
Tiny == [n |-> 1, d |-> 1073741824]
Big == Int2Rat(2048)

\* the enumerated matrices that are not square
NonSquares ==
  UNION {UNION {MatricesOfSize(r, c, MaxSize - 3) : c \in Dims \ {r}} : r \in Dims}

ElemTypes == {"int", "double"}

\* std::is_floating_point_v
is_floating_point(type) == type \in {"float", "double"}

\* (the input type kept whatever it is)
TargetTypeOfInput(result, type) == IF result = "void" THEN type ELSE result

\* TargetType of plu and cholesky: ResultType when one is given, else T when
\* T is floating-point, else double
TargetType(result, type) ==
  IF result = "void" THEN (IF is_floating_point(type) THEN type ELSE "double")
  ELSE result
BlockWidths == {1, 2, BLOCK_SIZE}

-----------------------------------------------------------------------------
(* plu: PLU.hpp *)

\* the pivot search of column i: the scan of rows i+1..n-1 from row j on,
\* <<max_val, pivot_row>> so far in best
\* (a scan that compares the signed entries instead of their magnitudes)
RECURSIVE FindPivotSigned(_, _, _, _)
FindPivotSigned(M, col, j, best) ==
  IF j >= M.rows THEN best
  ELSE LET curr_val == At(M, j, col)
       IN  IF RLt(best[1], curr_val)
           THEN FindPivotSigned(M, col, j + 1, <<curr_val, j>>)
           ELSE FindPivotSigned(M, col, j + 1, best)

\* (a scan that also moves to a later row of equal magnitude)
RECURSIVE FindPivotLast(_, _, _, _)
FindPivotLast(M, col, j, best) ==
  IF j >= M.rows THEN best
  ELSE LET curr_val == RAbs(At(M, j, col))
       IN  IF RLe(best[1], curr_val)
           THEN FindPivotLast(M, col, j + 1, <<curr_val, j>>)
           ELSE FindPivotLast(M, col, j + 1, best)

RECURSIVE FindPivot(_, _, _, _)
FindPivot(M, col, j, best) ==
  IF j >= M.rows THEN best
  ELSE LET curr_val == RAbs(At(M, j, col))
       IN  IF RLt(best[1], curr_val)
           THEN FindPivot(M, col, j + 1, <<curr_val, j>>)
           ELSE FindPivot(M, col, j + 1, best)

\* (a swap of the whole rows, whatever the length of the subspan)
SwapWholeRows(M, a, b, upto) ==
  [M EXCEPT !.data = [k \in 1..Len(M.data) |->
     IF RowOf(M, k) = a THEN At(M, b, ColOf(M, k))
     ELSE IF RowOf(M, k) = b THEN At(M, a, ColOf(M, k))
     ELSE M.data[k]]]

\* std::ranges::swap_ranges on columns 0..upto-1 of rows a and b
SwapRowPrefix(M, a, b, upto) ==
  [M EXCEPT !.data = [k \in 1..Len(M.data) |->
     IF ColOf(M, k) >= upto THEN M.data[k]
     ELSE IF RowOf(M, k) = a THEN At(M, b, ColOf(M, k))
     ELSE IF RowOf(M, k) = b THEN At(M, a, ColOf(M, k))
     ELSE M.data[k]]]

\* (an assignment P[a] = P[b] in place of the swap)
AssignEntry(s, a, b) == [k \in 1..Len(s) |-> IF k = a + 1 THEN s[b + 1] ELSE s[k]]

\* std::swap(P[a], P[b])
SwapEntries(s, a, b) ==
  [k \in 1..Len(s) |-> IF k = a + 1 THEN s[b + 1] ELSE IF k = b + 1 THEN s[a + 1] ELSE s[k]]

\* the origins of the rows once rows a and b have changed places
RowsExchanged(tags, a, b) ==
  [k \in 1..Len(tags) |-> tags[IF k = a + 1 THEN b + 1 ELSE IF k = b + 1 THEN a + 1 ELSE k]]

\* the multiplier of row j for pivot column col
Mult(M, j, col) == RMul(At(M, j, col), RDiv(One, At(M, col, col)))

\* elimination within the panel: rows below col, columns col+1..block_end-1
EliminateU(M, col, block_end) ==
  [M EXCEPT !.data = [k \in 1..Len(M.data) |->
     IF RowOf(M, k) > col /\ ColOf(M, k) > col /\ ColOf(M, k) < block_end
     THEN RSub(M.data[k], RMul(Mult(M, RowOf(M, k), col), At(M, col, ColOf(M, k))))
     ELSE M.data[k]]]

EliminateL(Lm, M, col) ==
  [Lm EXCEPT !.data = [k \in 1..Len(Lm.data) |->
     IF RowOf(Lm, k) > col /\ ColOf(Lm, k) = col
     THEN Mult(M, RowOf(Lm, k), col)
     ELSE Lm.data[k]]]

\* sum -= L(r, k) * _U(k, j) for k = k0..r-1
RECURSIVE TriSum(_, _, _, _, _, _)
TriSum(M, Lm, r, j, k, sum) ==
  IF k >= r THEN sum
  ELSE TriSum(M, Lm, r, j, k + 1, RSub(sum, RMul(At(Lm, r, k), At(M, k, j))))

\* column j of the triangular solve, rows r..block_end-1
RECURSIVE TriSolveCol(_, _, _, _, _, _)
TriSolveCol(M, Lm, first, block_end, j, r) ==
  IF r >= block_end THEN M
  ELSE TriSolveCol(SetAt(M, r, j, TriSum(M, Lm, r, j, first, At(M, r, j))),
                   Lm, first, block_end, j, r + 1)

\* triangular solve for U_12: columns j..n-1
RECURSIVE TriSolve(_, _, _, _, _)
TriSolve(M, Lm, first, block_end, j) ==
  IF j >= M.cols THEN M
  ELSE TriSolve(TriSolveCol(M, Lm, first, block_end, j, first), Lm, first, block_end, j + 1)

\* element (r, c) of a trailing row after the pivot rows k..block_end-1 were
\* applied, multipliers close to zero skipped
RECURSIVE TrailElem(_, _, _, _, _, _, _)
TrailElem(M, Lm, r, c, k, block_end, acc) ==
  IF k >= block_end THEN acc
  ELSE IF is_close(At(Lm, r, k), Zero, PIVOT_TOL_INV)
       THEN TrailElem(M, Lm, r, c, k + 1, block_end, acc)
       ELSE TrailElem(M, Lm, r, c, k + 1, block_end,
                      RSub(acc, RMul(At(Lm, r, k), At(M, k, c))))

TrailingUpdate(M, Lm, first, block_end) ==
  [M EXCEPT !.data = [k \in 1..Len(M.data) |->
     IF RowOf(M, k) >= block_end /\ ColOf(M, k) >= block_end
     THEN TrailElem(M, Lm, RowOf(M, k), ColOf(M, k), first, block_end, M.data[k])
     ELSE M.data[k]]]

\* U: a zeroed n x n matrix with row i of _U copied from the diagonal on
ExtractUStrict(M) ==
  [rows |-> M.rows, cols |-> M.cols,
   data |-> [k \in 1..Len(M.data) |->
               IF ColOf(M, k) > RowOf(M, k) THEN M.data[k] ELSE Zero]]

ExtractU(M) ==
  [rows |-> M.rows, cols |-> M.cols,
   data |-> [k \in 1..Len(M.data) |->
               IF ColOf(M, k) >= RowOf(M, k) THEN M.data[k] ELSE Zero]]

-----------------------------------------------------------------------------
(* plu: the call as a sequence of steps *)

SingularErrorInvalid == "invalid_argument"

\* the kind of "Matrix is singular!"
SingularError == "runtime_error"

block_end == Min(ib + B, matrix.rows)

\* where the panel loop stands once the panel starting at column first is
\* entered: its first column to pivot, or the final check
PanelEntry(first, n) ==
  IF first < n /\ first < n - 1 THEN "plu_pivot" ELSE "plu_final"

\* plu(): the working matrix is a converted copy (cast) for a non-floating
\* element type and a copy otherwise; cast constructs Matrix(rows, cols)
PluCall ==
  /\ op = "plu"
  /\ pc = "idle"
  /\ IF TargetType(ResultType, T) # T /\ (matrix.rows = 0 \/ matrix.cols = 0)
     THEN /\ pc' = "raised"
          /\ err' = "invalid_argument"
          /\ UNCHANGED <<_U, T_arg>>
     ELSE /\ pc' = "plu_check"
          /\ _U' = cast(matrix)
          /\ T_arg' = TargetType(ResultType, T)
          /\ UNCHANGED err
  /\ UNCHANGED <<inputVars, solver, P, L, U, ib, i, src, cholVars, j_col, qrVars>>

\* _plu: squareness, the empty matrix, then P = 0..n-1 and L = I
PluCheck ==
  /\ pc = "plu_check"
  /\ IF ~is_square(_U)
     THEN /\ pc' = "raised"
          /\ err' = "invalid_argument"
          /\ UNCHANGED <<P, L, src>>
     ELSE IF _U.rows = 0
     THEN /\ pc' = "done"
          /\ UNCHANGED <<err, P, L, src>>
     ELSE /\ pc' = PanelEntry(0, _U.rows)
          /\ P' = [k \in 1.._U.rows |-> k - 1]
          /\ src' = [k \in 1.._U.rows |-> k - 1]
          /\ L' = identity_matrix(_U.rows)
          /\ UNCHANGED err
  /\ UNCHANGED <<callVars, _U, U, ib, i, cholVars, j_col, qrVars>>

\* column i: pivot search, singularity test, row swaps
PluPivot ==
  /\ pc = "plu_pivot"
  /\ LET best == FindPivot(_U, i, i + 1, <<RAbs(At(_U, i, i)), i>>)
         max_val == best[1]
         pivot_row == best[2]
     IN  IF is_close(max_val, Zero, PIVOT_TOL_INV)
         THEN /\ pc' = "raised"
              /\ err' = SingularError
              /\ UNCHANGED <<_U, P, L, src>>
         ELSE /\ pc' = "plu_elim"
              /\ UNCHANGED err
              /\ IF pivot_row # i
                 THEN /\ P' = SwapEntries(P, i, pivot_row)
                      /\ src' = RowsExchanged(src, i, pivot_row)
                      /\ _U' = SwapRowPrefix(_U, i, pivot_row, _U.cols)
                      /\ L' = IF i > 0 THEN SwapRowPrefix(L, i, pivot_row, i) ELSE L
                 ELSE UNCHANGED <<_U, P, L, src>>
  /\ UNCHANGED <<callVars, U, ib, i, cholVars, j_col, qrVars>>

\* column i: multipliers into L, elimination restricted to the panel
PluEliminate ==
  /\ pc = "plu_elim"
  /\ L' = EliminateL(L, _U, i)
  /\ _U' = EliminateU(_U, i, block_end)
  /\ i' = i + 1
  /\ pc' = IF i + 1 < block_end /\ i + 1 < _U.rows - 1 THEN "plu_pivot"
           ELSE IF block_end < _U.rows THEN "plu_trisolve"
           ELSE "plu_final"
  /\ UNCHANGED <<callVars, err, P, U, ib, src, cholVars, j_col, qrVars>>

\* after the panel: L_11 * U_12 = A_12
PluTriSolve ==
  /\ pc = "plu_trisolve"
  /\ _U' = TriSolve(_U, L, ib, block_end, block_end)
  /\ pc' = "plu_update"
  /\ UNCHANGED <<callVars, err, P, L, U, ib, i, src, cholVars, j_col, qrVars>>

\* after the panel: the eliminations applied to the trailing block, then the
\* next panel
PluTrailingUpdate ==
  /\ pc = "plu_update"
  /\ _U' = TrailingUpdate(_U, L, ib, block_end)
  /\ ib' = ib + B
  /\ i' = ib + B
  /\ pc' = PanelEntry(ib + B, _U.rows)
  /\ UNCHANGED <<callVars, err, P, L, U, src, cholVars, j_col, qrVars>>

\* after all panels: the final diagonal entry
PluFinalCheck ==
  /\ pc = "plu_final"
  /\ IF is_close(At(_U, _U.rows - 1, _U.rows - 1), Zero, PIVOT_TOL_INV)
     THEN /\ pc' = "raised"
          /\ err' = SingularError
     ELSE /\ pc' = "plu_extract"
          /\ UNCHANGED err
  /\ UNCHANGED <<callVars, _U, P, L, U, ib, i, src, cholVars, j_col, qrVars>>

PluExtractU ==
  /\ pc = "plu_extract"
  /\ U' = ExtractU(_U)
  /\ pc' = "done"
  /\ UNCHANGED <<callVars, err, _U, P, L, ib, i, src, cholVars, j_col, qrVars>>

\* the matrices plu is called with
PluExtremes ==
  { [rows |-> 1, cols |-> 1, data |-> <<Tiny>>],
    [rows |-> 2, cols |-> 2, data |-> <<One, Big, Tiny, One>>],
    [rows |-> 2, cols |-> 2, data |-> <<One, Big, Zero, One>>],
    [rows |-> 2, cols |-> 2, data |-> <<One, Zero, Tiny, One>>],
    [rows |-> 2, cols |-> 2, data |-> <<One, Zero, Zero, Tiny>>] }

\* MatrixTests.cpp, MATRIX PLU TESTS
PluTestMatrices ==
  { FromRows(<<<<1, 2, 3>>, <<4, 5, 6>>>>),
    FromRows(<<<<1, 2, 3>>, <<2, 4, 6>>, <<1, 2, 3>>>>),
    FromRows(<<<<2, 1, 1>>, <<4, -6, 0>>, <<-2, 7, 2>>>>),
    FromRows(<<<<1, 2, 3>>, <<0, 4, 5>>, <<0, 0, 6>>>>),
    FromRows(<<<<-4, -5>>, <<-2, -1>>>>),
    FromRows(<<<<1, 2, 3>>, <<4, 5, 6>>, <<7, 8, 10>>>>),
    FromRows(<<<<0, 1, 2>>, <<1, 1, 1>>, <<2, 1, 1>>>>),
    FromRows(<<<<1>>, <<2>>>>) }

PluInputs ==
  UNION {Matrices(n, n) : n \in Dims} \cup NonSquares \cup {EmptyMatrix} \cup PluTestMatrices
    \cup PluExtremes

\* the state before a call: nothing allocated yet
NoView == [ptr |-> 0, rows |-> 0, cols |-> 0, stride |-> 0]
NoWindow == [row |-> 0, col |-> 0, height |-> 0, width |-> 0]
NoVectorView == [ptr |-> 0, size |-> 0, inc |-> 1]
NoCall == [name |-> "none", args |-> <<>>]
Nothing == [kind |-> "nothing"]

\* no Matrix object, view or kernel call is part of a factorization run
\* no parallel loop is running
NoFork == [phase |-> "none"]
NoWorkers ==
  /\ limit = OMP_QUADRATIC_LIMIT /\ pending = {} /\ y_vec = <<>>
  /\ running = <<>> /\ forked = NoFork

NoObjects ==
  /\ NoWorkers
  /\ built = FALSE /\ calls = 0 /\ call = NoCall /\ ret = Nothing
  /\ mv = NoView /\ window = NoWindow /\ x_buf = <<>> /\ x_view = NoVectorView
  /\ y_buf = <<>> /\ y_view = NoVectorView /\ Tx = "double"

NoFactors ==
  /\ NoObjects
  /\ _U = EmptyMatrix /\ P = <<>> /\ L = EmptyMatrix /\ U = EmptyMatrix
  /\ ib = 0 /\ i = 0 /\ src = <<>>
  /\ converted = EmptyMatrix /\ jj = 0 /\ j_col = 0 /\ T_arg = "none"
  /\ A_work = EmptyMatrix /\ A_lap = EmptyMatrix /\ tau = <<>> /\ R = EmptyMatrix
  /\ Q_full = EmptyMatrix /\ Q = EmptyMatrix

NoLocals == NoFactors /\ solver = NoSolver

InitPLU ==
  /\ op = "plu"
  /\ pc = "idle"
  /\ err = "none"
  /\ T \in ElemTypes
  /\ B \in BlockWidths
  /\ matrix \in PluInputs
  /\ T = "int" => (B = BLOCK_SIZE /\ \A k \in 1..Len(matrix.data) : matrix.data[k].d = 1)
  /\ ~is_square(matrix) => B = BLOCK_SIZE
  /\ given = matrix
  /\ ResultType = "void"
  /\ full_Q = FALSE /\ full_R = FALSE /\ native = FALSE
  /\ NoLocals

NextPLU ==
  \/ PluCall
  \/ PluCheck
  \/ PluPivot
  \/ PluEliminate
  \/ PluTriSolve
  \/ PluTrailingUpdate
  \/ PluFinalCheck
  \/ PluExtractU

SpecPLU == InitPLU /\ [][NextPLU]_vars

-----------------------------------------------------------------------------
(* Matrix algebra used to state the properties *)

MatMul(X, Y) ==
  [rows |-> X.rows, cols |-> Y.cols,
   data |-> [k \in 1..(X.rows * Y.cols) |->
     LET r == (k - 1) \div Y.cols
         c == (k - 1) % Y.cols
         Dot[t \in 0..X.cols] ==
           IF t = 0 THEN Zero
           ELSE RAdd(Dot[t - 1], RMul(At(X, r, t - 1), At(Y, t - 1, c)))
     IN  Dot[X.cols]]]

Transposed(X) ==
  [rows |-> X.cols, cols |-> X.rows,
   data |-> [k \in 1..(X.rows * X.cols) |-> At(X, (k - 1) % X.rows, (k - 1) \div X.rows)]]

\* row r of the result is row perm[r] of X
Permute(perm, X) ==
  [X EXCEPT !.data = [k \in 1..Len(X.data) |-> At(X, perm[RowOf(X, k) + 1], ColOf(X, k))]]

\* loosely_equal(first, second, 1e-6): same shape, elementwise is_close
loosely_equal(X, Y) ==
  /\ X.rows = Y.rows
  /\ X.cols = Y.cols
  /\ \A k \in 1..Len(X.data) : is_close(X.data[k], Y.data[k], EPSILON_INV)

\* the matrix without row r and column c
Minor(X, r, c) ==
  [rows |-> X.rows - 1, cols |-> X.cols - 1,
   data |-> [k \in 1..((X.rows - 1) * (X.cols - 1)) |->
     LET rr == (k - 1) \div (X.cols - 1)
         cc == (k - 1) % (X.cols - 1)
     IN  At(X, IF rr < r THEN rr ELSE rr + 1, IF cc < c THEN cc ELSE cc + 1)]]

\* determinant by expansion along the first row
RECURSIVE Det(_)
Det(X) ==
  IF X.rows = 1 THEN At(X, 0, 0)
  ELSE LET Sum[c \in 0..X.cols] ==
             IF c = 0 THEN Zero
             ELSE LET term == RMul(At(X, 0, c - 1), Det(Minor(X, 0, c - 1)))
                  IN  IF (c - 1) % 2 = 0 THEN RAdd(Sum[c - 1], term)
                      ELSE RSub(Sum[c - 1], term)
       IN  Sum[X.cols]

NonSingular(X) == is_square(X) /\ X.rows > 0 /\ Det(X).n # 0

IsUnitLower(X) ==
  \A r \in 0..(X.rows - 1) : \A c \in 0..(X.cols - 1) :
    /\ (r = c => At(X, r, c) = One)
    /\ (c > r => At(X, r, c) = Zero)

IsUpper(X) ==
  \A r \in 0..(X.rows - 1) : \A c \in 0..(X.cols - 1) : c < r => At(X, r, c) = Zero

IsLower(X) ==
  \A r \in 0..(X.rows - 1) : \A c \in 0..(X.cols - 1) : c > r => At(X, r, c) = Zero

IsPermutation(perm, n) ==
  /\ Len(perm) = n
  /\ \A k \in 0..(n - 1) : \E t \in 1..n : perm[t] = k

PluRunning ==
  pc \in {"plu_pivot", "plu_elim", "plu_trisolve", "plu_update", "plu_final", "plu_extract"}

-----------------------------------------------------------------------------
(* cholesky: operators *)

\* is_symmetric(): square, and every pair (r, c), (c, r) with c > r is close
\* within the default tolerance
is_symmetric(M) ==
  /\ is_square(M)
  /\ \A r \in 0..(M.rows - 1) : \A c \in (r + 1)..(M.cols - 1) :
       is_close(At(M, r, c), At(M, c, r), EPSILON_INV)

\* the integer square root of n by bisection, lo * lo <= n < hi * hi
RECURSIVE Bisect(_, _, _)
Bisect(n, lo, hi) ==
  IF hi - lo <= 1 THEN lo
  ELSE IF ((lo + hi) \div 2) * ((lo + hi) \div 2) <= n
       THEN Bisect(n, (lo + hi) \div 2, hi)
       ELSE Bisect(n, lo, (lo + hi) \div 2)

ISqrt(n) == Bisect(n, 0, Min(n, 46340) + 1)

IsSquareRat(x) ==
  /\ x.n >= 0
  /\ ISqrt(x.n) * ISqrt(x.n) = x.n
  /\ ISqrt(x.d) * ISqrt(x.d) = x.d

\* std::sqrt, on the squares of rationals (the inputs are chosen so that no
\* other value reaches it)
Sqrt(x) == [n |-> ISqrt(x.n), d |-> ISqrt(x.d)]

\* sum over k < upto of L[a][k] * L[b][k]
RowDot(Lm, a, b, upto) ==
  LET S[k \in 0..upto] ==
        IF k = 0 THEN Zero
        ELSE RAdd(S[k - 1], RMul(At(Lm, a, k - 1), At(Lm, b, k - 1)))
  IN  S[upto]

diag_val_no_sum(A, Lm, c) == At(A, c, c)

\* diag_val = matrix.at(j, j) - sum
diag_val(A, Lm, c) == RSub(At(A, c, c), RowDot(Lm, c, c, c))

OffDiagNoSum(A, Lm, r, c) == RDiv(At(A, r, c), At(Lm, c, c))

\* (matrix.at(i, j) - sum) / L_row_j[j]
OffDiag(A, Lm, r, c) ==
  RDiv(RSub(At(A, r, c), RowDot(Lm, r, c, c)), At(Lm, c, c))

\* column c of the diagonal block: the diagonal entry, then the rows below
\* it inside the panel
RECURSIVE PanelRows(_, _, _, _, _)
PanelRows(A, Lm, c, r, j_end) ==
  IF r >= j_end THEN Lm
  ELSE PanelRows(A, SetAt(Lm, r, c, OffDiag(A, Lm, r, c)), c, r + 1, j_end)

PanelColumn(A, Lm, c, j_end) ==
  PanelRows(A, SetAt(Lm, c, c, Sqrt(diag_val(A, Lm, c))), c, c + 1, j_end)

\* row r below the panel: its entries in the panel's columns, left to right
RECURSIVE TrailRow(_, _, _, _, _)
TrailRow(A, Lm, r, c, j_end) ==
  IF c >= j_end THEN Lm
  ELSE TrailRow(A, SetAt(Lm, r, c, OffDiag(A, Lm, r, c)), r, c + 1, j_end)

RECURSIVE TrailRows(_, _, _, _, _)
TrailRows(A, Lm, r, first, j_end) ==
  IF r >= A.rows THEN Lm
  ELSE TrailRows(A, TrailRow(A, Lm, r, first, j_end), r + 1, first, j_end)

-----------------------------------------------------------------------------
(* cholesky: the call as a sequence of steps *)

\* the matrix _cholesky receives: the input itself, or the converted copy
CholArg == IF TargetType(ResultType, T) = T THEN matrix ELSE converted

j_end == Min(jj + B, CholArg.rows)

\* cholesky(): a non-floating input is converted first; cast constructs
\* Matrix(rows, cols)
CholCall ==
  /\ op = "cholesky"
  /\ pc = "idle"
  /\ IF TargetType(ResultType, T) # T
     THEN IF matrix.rows = 0 \/ matrix.cols = 0
          THEN /\ pc' = "raised"
               /\ err' = "invalid_argument"
               /\ UNCHANGED <<converted, T_arg>>
          ELSE /\ pc' = "chol_check"
               /\ converted' = cast(matrix)
               /\ T_arg' = TargetType(ResultType, T)
               /\ UNCHANGED err
     ELSE /\ pc' = "chol_check"
          /\ T_arg' = T
          /\ UNCHANGED <<err, converted>>
  /\ UNCHANGED <<inputVars, solver, pluVars, L, jj, j_col, qrVars>>

\* _cholesky: symmetry, then Matrix<T> L(n, n)
CholCheck ==
  /\ pc = "chol_check"
  /\ IF ~is_symmetric(CholArg) \/ CholArg.rows = 0
     THEN /\ pc' = "raised"
          /\ err' = "invalid_argument"
          /\ UNCHANGED <<L, jj, j_col>>
     ELSE /\ pc' = "chol_column"
          /\ L' = NewMatrix(CholArg.rows, CholArg.rows)
          /\ jj' = 0
          /\ j_col' = 0
          /\ UNCHANGED err
  /\ UNCHANGED <<callVars, pluVars, converted, qrVars>>

\* column j of the diagonal block
CholColumn ==
  /\ pc = "chol_column"
  /\ IF RLe(diag_val(CholArg, L, j_col), Zero)
     THEN /\ pc' = "raised"
          /\ err' = "invalid_argument"
          /\ UNCHANGED <<L, j_col>>
     ELSE /\ L' = PanelColumn(CholArg, L, j_col, j_end)
          /\ j_col' = j_col + 1
          /\ pc' = IF j_col + 1 < j_end THEN "chol_column" ELSE "chol_rows"
          /\ UNCHANGED err
  /\ UNCHANGED <<callVars, pluVars, cholVars, qrVars>>

\* the rows below the panel, then the next panel or the return of L
CholTrailingRows ==
  /\ pc = "chol_rows"
  /\ L' = TrailRows(CholArg, L, j_end, jj, j_end)
  /\ jj' = jj + B
  /\ j_col' = jj + B
  /\ pc' = IF jj + B < CholArg.rows THEN "chol_column" ELSE "done"
  /\ UNCHANGED <<callVars, pluVars, err, converted, qrVars>>

\* the leading k x k block
Leading(X, k) ==
  [rows |-> k, cols |-> k,
   data |-> [t \in 1..(k * k) |-> At(X, (t - 1) \div k, (t - 1) % k)]]

\* the symmetric matrix with the lower triangle of X
LowerSym(X) ==
  [X EXCEPT !.data = [k \in 1..Len(X.data) |->
     IF ColOf(X, k) > RowOf(X, k) THEN At(X, ColOf(X, k), RowOf(X, k)) ELSE X.data[k]]]

LeadingMinor(X, k) == IF k = 0 THEN One ELSE Det(Leading(X, k))

\* every square root the factorization of X takes is that of the square of a
\* rational: the k-th root is taken of the ratio of the leading minors k and
\* k - 1, as long as the earlier ratios are positive
ExactRoots(X) ==
  is_symmetric(X) =>
    \A k \in 1..X.rows :
      (\A m \in 1..(k - 1) : RSign(LeadingMinor(LowerSym(X), m)) > 0)
        => \/ RSign(LeadingMinor(LowerSym(X), k)) <= 0
           \/ IsSquareRat(RDiv(LeadingMinor(LowerSym(X), k), LeadingMinor(LowerSym(X), k - 1)))

\* lower triangular factors with a positive diagonal
LowerFactors(n) ==
  { [rows |-> n, cols |-> n,
     data |-> [k \in 1..(n * n) |->
       LET r == (k - 1) \div n
           c == (k - 1) % n
       IN  IF r = c THEN Int2Rat(dg[r + 1])
           ELSE IF c < r THEN Int2Rat(lo[((r * (r - 1)) \div 2) + c + 1])
           ELSE Zero]] :
    dg \in [1..n -> 1..MaxVal], lo \in [1..((n * (n - 1)) \div 2) -> {-1, 0, 1}] }

GramDims == {n \in Dims : n <= 3}

\* symmetric positive definite matrices F * F^T
Grams == UNION {{MatMul(F, Transposed(F)) : F \in LowerFactors(n)} : n \in GramDims}

\* F * F^T with one diagonal entry lowered so that the factorization meets a
\* zero or negative value at that column
Defects ==
  UNION {UNION {{SetAt(MatMul(F, Transposed(F)), c, c,
                       RSub(At(MatMul(F, Transposed(F)), c, c),
                            RAdd(RMul(At(F, c, c), At(F, c, c)), Int2Rat(d)))) :
                  c \in 0..(n - 1), d \in {0, 1}} :
                F \in LowerFactors(n)} : n \in GramDims}

\* MatrixTests.cpp, MATRIX CHOLESKY TESTS, and a non-square matrix
CholTestMatrices ==
  { FromRows(<<<<4, 12, -16>>, <<12, 37, -43>>, <<-16, -43, 98>>>>),
    FromRows(<<<<9, 0, 0>>, <<0, 16, 0>>, <<0, 0, 25>>>>),
    FromRows(<<<<1, 2, 1>>, <<2, 5, 2>>, <<1, 2, 10>>>>),
    FromRows(<<<<1, 2>>, <<3, 4>>>>),
    FromRows(<<<<1, 2>>, <<2, 4>>>>),
    FromRows(<<<<1, 2, 3>>, <<4, 5, 6>>>>) }

\* off-diagonal pairs that differ by less than, and by more than, 1e-6
CholExtremes ==
  { [rows |-> 2, cols |-> 2, data |-> <<One, [n |-> 1, d |-> 1048576], Zero, One>>],
    [rows |-> 2, cols |-> 2, data |-> <<One, [n |-> 1, d |-> 524288], Zero, One>>] }

CholInputs ==
  {X \in UNION {Matrices(n, n) : n \in Dims} \cup NonSquares \cup Grams \cup Defects
           \cup CholTestMatrices \cup CholExtremes \cup {EmptyMatrix} : ExactRoots(X)}

InitChol ==
  /\ op = "cholesky"
  /\ pc = "idle"
  /\ err = "none"
  /\ T \in ElemTypes
  /\ B \in BlockWidths
  /\ matrix \in CholInputs
  /\ T = "int" => (B = BLOCK_SIZE /\ \A k \in 1..Len(matrix.data) : matrix.data[k].d = 1)
  /\ ~is_square(matrix) => B = BLOCK_SIZE
  /\ given = matrix
  /\ ResultType = "void"
  /\ full_Q = FALSE /\ full_R = FALSE /\ native = FALSE
  /\ NoLocals

NextChol ==
  \/ CholCall
  \/ CholCheck
  \/ CholColumn
  \/ CholTrailingRows

SpecChol == InitChol /\ [][NextChol]_vars

-----------------------------------------------------------------------------
(* QR_decompostion: operators *)

\* Matrix::view(row, col, height, width): a MatrixView is the position of its
\* first element in the buffer, its shape and the stride of the owner
view(M, row, col, height, width) ==
  [ptr |-> (row * M.cols) + col, rows |-> height, cols |-> width, stride |-> M.cols]

\* MatrixView::operator[]: element (r, c) of the view V over the buffer of M
ViewAt(M, V, r, c) == M.data[V.ptr + (r * V.stride) + c + 1]

\* whether element k of the buffer lies in the view
InView(V, k) ==
  /\ k - 1 >= V.ptr
  /\ (k - 1 - V.ptr) \div V.stride < V.rows
  /\ (k - 1 - V.ptr) % V.stride < V.cols

\* detail::trans_gemv: y[c] = sum over r of x[r] * A[r][c]
trans_gemv(x, M, V) ==
  [c \in 1..V.cols |->
     LET S[r \in 0..V.rows] ==
           IF r = 0 THEN Zero
           ELSE RAdd(S[r - 1], RMul(x[r], ViewAt(M, V, r - 1, c - 1)))
     IN  S[V.rows]]

\* kernels::ger: A[r][c] += alpha * x[r] * y[c] on the elements of the view
ger(M, V, x, y, alpha) ==
  [M EXCEPT !.data = [k \in 1..Len(M.data) |->
     IF InView(V, k)
     THEN RAdd(M.data[k],
               RMul(RMul(alpha, x[((k - 1 - V.ptr) \div V.stride) + 1]),
                    y[((k - 1 - V.ptr) % V.stride) + 1]))
     ELSE M.data[k]]]

\* sigma: the squares of column c below row c
TailSquares(W, c) ==
  LET S[r \in c..(W.rows - 1)] ==
        IF r = c THEN Zero
        ELSE RAdd(S[r - 1], RMul(At(W, r, c), At(W, r, c)))
  IN  S[W.rows - 1]

\* normx = sqrt(alpha * alpha + sigma)
NormX(W, c) == Sqrt(RAdd(RMul(At(W, c, c), At(W, c, c)), TailSquares(W, c)))

\* the reflector of column c stored in place: the tail scaled by
\* 1 / (alpha - beta), beta on the diagonal, and tau = 2 / vTv
StoreReflector(W, c, beta) ==
  LET u0_inv == RDiv(One, RSub(At(W, c, c), beta))
      stored == [W EXCEPT !.data = [k \in 1..Len(W.data) |->
                   IF ColOf(W, k) = c /\ RowOf(W, k) > c THEN RMul(W.data[k], u0_inv)
                   ELSE IF ColOf(W, k) = c /\ RowOf(W, k) = c THEN beta
                   ELSE W.data[k]]]
  IN  [tau |-> RDiv(Int2Rat(2), RAdd(One, TailSquares(stored, c))), A |-> stored]

householder_column_sign_fixed(W, c) ==
  IF TailSquares(W, c) = Zero THEN [tau |-> Zero, A |-> SetAt(W, c, c, NormX(W, c))]
  ELSE StoreReflector(W, c, IF RLe(At(W, c, c), Zero) THEN NormX(W, c)
                            ELSE RNeg(NormX(W, c)))

\* detail::householder_column (c < rows at every call): tau and the matrix
\* with the reflector stored
householder_column(W, c) ==
  IF TailSquares(W, c) = Zero THEN [tau |-> Zero, A |-> W]
  ELSE StoreReflector(W, c, IF RLe(At(W, c, c), Zero) THEN NormX(W, c)
                            ELSE RNeg(NormX(W, c)))

\* the elementary reflector of LAPACK's geqrf: beta = -sign(alpha) * normx
\* with sign(0) = +1, the same storage and the same tau
larfg(W, c) ==
  IF TailSquares(W, c) = Zero THEN [tau |-> Zero, A |-> W]
  ELSE StoreReflector(W, c, IF RLt(At(W, c, c), Zero) THEN NormX(W, c)
                            ELSE RNeg(NormX(W, c)))

load_reflector_no_unit(W, c) ==
  [t \in 1..(W.rows - c) |-> At(W, t - 1 + c, c)]

\* detail::load_reflector: v[0] = 1, the rest from column c below the diagonal
load_reflector(W, c) ==
  [t \in 1..(W.rows - c) |-> IF t = 1 THEN One ELSE At(W, t - 1 + c, c)]

\* the reflector h of column c applied to the columns right of c
ApplyReflector(h, c) ==
  IF h.tau = Zero \/ ~(c + 1 < h.A.cols) THEN h.A
  ELSE LET v == load_reflector(h.A, c)
           A_block == view(h.A, c, c + 1, h.A.rows - c, h.A.cols - (c + 1))
           w == trans_gemv(v, h.A, A_block)
       IN  ger(h.A, A_block, v, w, RNeg(h.tau))

GetRWithReflectors(W, rows) ==
  [rows |-> rows, cols |-> W.cols,
   data |-> [t \in 1..(rows * W.cols) |->
     IF (t - 1) \div W.cols < W.rows
     THEN At(W, (t - 1) \div W.cols, (t - 1) % W.cols) ELSE Zero]]

\* Get R: a zeroed matrix with the entries of W from the diagonal on
GetR(W, rows) ==
  [rows |-> rows, cols |-> W.cols,
   data |-> [t \in 1..(rows * W.cols) |->
     IF (t - 1) % W.cols >= (t - 1) \div W.cols
     THEN At(W, (t - 1) \div W.cols, (t - 1) % W.cols) ELSE Zero]]

ApplyToQUnscaled(Qf, W, taus, c) ==
  IF taus[c + 1] = Zero THEN Qf
  ELSE LET v == load_reflector(W, c)
           Qblock == view(Qf, c, c, Qf.rows - c, Qf.rows - c)
           w == trans_gemv(v, Qf, Qblock)
       IN  ger(Qf, Qblock, v, w, RNeg(One))

\* the reflector of column c applied to the block of Q_full from (c, c) on
ApplyToQ(Qf, W, taus, c) ==
  IF taus[c + 1] = Zero THEN Qf
  ELSE LET v == load_reflector(W, c)
           Qblock == view(Qf, c, c, Qf.rows - c, Qf.rows - c)
           w == trans_gemv(v, Qf, Qblock)
       IN  ger(Qf, Qblock, v, w, RNeg(taus[c + 1]))

\* (a copy of the first rows * cols elements of the buffer of Qf, row breaks
\* ignored)
FirstColumnsPacked(Qf, cols) ==
  [rows |-> Qf.rows, cols |-> cols,
   data |-> [t \in 1..(Qf.rows * cols) |-> Qf.data[t]]]

\* the first cols columns of Qf
FirstColumns(Qf, cols) ==
  [rows |-> Qf.rows, cols |-> cols,
   data |-> [t \in 1..(Qf.rows * cols) |-> At(Qf, (t - 1) \div cols, (t - 1) % cols)]]

\* LAPACK geqrf on an m x n matrix: R on and above the diagonal, the
\* reflectors below it, and their scalars
RECURSIVE geqrf(_, _, _)
geqrf(W, taus, c) ==
  IF c >= Min(W.rows, W.cols) THEN [A |-> W, tau |-> taus]
  ELSE geqrf(ApplyReflector(larfg(W, c), c), [taus EXCEPT ![c + 1] = larfg(W, c).tau], c + 1)

\* LAPACK orgqr: the product of the reflectors applied to the identity
RECURSIVE orgqr(_, _, _, _)
orgqr(Qf, W, taus, t) ==
  IF t >= Len(taus) THEN Qf
  ELSE orgqr(ApplyToQ(Qf, W, taus, (Len(taus) - 1) - t), W, taus, t + 1)

-----------------------------------------------------------------------------
(* QR_decompostion: the call as a sequence of steps *)

qr_m == matrix.rows
qr_n == matrix.cols
qr_k == Min(qr_m, qr_n)

RRowsThin == qr_k

\* rows of R
RRows == IF full_R THEN qr_m ELSE qr_k

\* columns of Q
QCols == IF full_Q THEN qr_m ELSE qr_k

\* the empty matrix is rejected; otherwise the working copy and tau
QRCall ==
  /\ op = "qr"
  /\ pc = "idle"
  /\ IF qr_m = 0 \/ qr_n = 0
     THEN /\ pc' = "raised"
          /\ err' = "invalid_argument"
          /\ UNCHANGED <<A_work, tau>>
     ELSE /\ pc' = IF native THEN "qr_native_R" ELSE "qr_column"
          /\ A_work' = cast(matrix)
          /\ tau' = [t \in 1..qr_k |-> Zero]
          /\ UNCHANGED err
  /\ UNCHANGED <<callVars, pluVars, L, cholVars, j_col, full_Q, full_R, native, A_lap, R, Q_full, Q>>

\* manual path, column j: the reflector, applied to the rest of the matrix
QRColumn ==
  /\ pc = "qr_column"
  /\ tau' = [tau EXCEPT ![j_col + 1] = householder_column(A_work, j_col).tau]
  /\ A_work' = ApplyReflector(householder_column(A_work, j_col), j_col)
  /\ j_col' = j_col + 1
  /\ pc' = IF j_col + 1 < qr_k THEN "qr_column" ELSE "qr_get_R"
  /\ UNCHANGED <<callVars, pluVars, L, cholVars, err, full_Q, full_R, native, A_lap, R, Q_full, Q>>

\* manual path: Get R, and Q_full = I
QRGetR ==
  /\ pc = "qr_get_R"
  /\ R' = GetR(A_work, RRows)
  /\ Q_full' = identity_matrix(qr_m)
  /\ j_col' = 0
  /\ pc' = "qr_form_Q"
  /\ UNCHANGED <<callVars, pluVars, L, cholVars, err, full_Q, full_R, native, A_work, A_lap, tau, Q>>

\* manual path, step t of Get Q: reflector j = (k - 1) - t
QRFormQ ==
  /\ pc = "qr_form_Q"
  /\ Q_full' = ApplyToQ(Q_full, A_work, tau, (qr_k - 1) - j_col)
  /\ j_col' = j_col + 1
  /\ pc' = IF j_col + 1 < qr_k THEN "qr_form_Q" ELSE "qr_get_Q"
  /\ UNCHANGED <<callVars, pluVars, L, cholVars, err, full_Q, full_R, native, A_work, A_lap, tau, R, Q>>

\* manual path: thin or full Q, and the return
QRGetQ ==
  /\ pc = "qr_get_Q"
  /\ Q' = IF full_Q THEN Q_full ELSE FirstColumns(Q_full, qr_k)
  /\ pc' = "done"
  /\ UNCHANGED <<callVars, pluVars, L, cholVars, j_col, err, full_Q, full_R, native, A_work, A_lap, tau, R, Q_full>>

\* native path: geqrf on the transposed copy (column-major), then Get R
QRNativeR ==
  /\ pc = "qr_native_R"
  /\ A_lap' = Transposed(geqrf(A_work, tau, 0).A)
  /\ tau' = geqrf(A_work, tau, 0).tau
  /\ R' = GetR(geqrf(A_work, tau, 0).A, RRows)
  /\ pc' = "qr_native_Q"
  /\ UNCHANGED <<callVars, pluVars, L, cholVars, j_col, err, full_Q, full_R, native, A_work, Q_full, Q>>

\* native path: orgqr on the reflectors (widened to m columns for a full Q
\* of a tall matrix), then Q transposed back and the return
QRNativeQ ==
  /\ pc = "qr_native_Q"
  /\ A_lap' = Transposed(FirstColumns(orgqr(identity_matrix(qr_m), Transposed(A_lap), tau, 0), QCols))
  /\ Q' = FirstColumns(orgqr(identity_matrix(qr_m), Transposed(A_lap), tau, 0), QCols)
  /\ pc' = "done"
  /\ UNCHANGED <<callVars, pluVars, L, cholVars, j_col, err, full_Q, full_R, native, A_work, tau, R, Q_full>>

\* every square root the factorization of X takes is that of the square of a
\* rational
RECURSIVE ExactNorms(_, _, _)
ExactNorms(W, c, lapack) ==
  IF c >= Min(W.rows, W.cols) THEN TRUE
  ELSE /\ IsSquareRat(RAdd(RMul(At(W, c, c), At(W, c, c)), TailSquares(W, c)))
       /\ ExactNorms(ApplyReflector(IF lapack THEN larfg(W, c) ELSE householder_column(W, c), c),
                     c + 1, lapack)

\* MatrixTests.cpp, MATRIX QR TESTS (the known 3 x 3 case), its first two
\* columns and rows, tall matrices with rational factors, a matrix with
\* proportional columns and one whose first column is already reduced
QRTestMatrices ==
  { FromRows(<<<<10, 9, 18>>, <<20, -15, -15>>, <<20, -12, 51>>>>),
    FromRows(<<<<10, 9>>, <<20, -15>>, <<20, -12>>>>),
    FromRows(<<<<10, 9, 18>>, <<20, -15, -15>>>>),
    FromRows(<<<<3, 1>>, <<4, 2>>>>),
    FromRows(<<<<1, 0>>, <<1, 0>>, <<1, 1>>, <<1, 1>>>>),
    FromRows(<<<<0, 3>>, <<0, 4>>, <<2, 0>>>>),
    FromRows(<<<<3, 6, 0>>, <<4, 8, 0>>, <<0, 0, 0>>>>),
    FromRows(<<<<-3, 1>>, <<0, 3>>, <<0, 4>>>>) }

QRInputs ==
  UNION {Matrices(n, n) : n \in Dims} \cup NonSquares \cup QRTestMatrices \cup {EmptyMatrix}

InitQR ==
  /\ op = "qr"
  /\ pc = "idle"
  /\ err = "none"
  /\ T = "double"
  /\ B = BLOCK_SIZE
  /\ full_Q \in BOOLEAN
  /\ full_R \in BOOLEAN
  /\ native \in BOOLEAN
  /\ matrix \in QRInputs
  /\ ExactNorms(matrix, 0, native)
  /\ given = matrix
  /\ ResultType = "void"
  /\ NoLocals

NextQR ==
  \/ QRCall
  \/ QRColumn
  \/ QRGetR
  \/ QRFormQ
  \/ QRGetQ
  \/ QRNativeR
  \/ QRNativeQ

SpecQR == InitQR /\ [][NextQR]_vars

-----------------------------------------------------------------------------
(* The three factorizations together, on the smaller inputs *)

SizeOf(X) ==
  LET S[k \in 0..Len(X.data)] == IF k = 0 THEN 0 ELSE S[k - 1] + 1 + Abs(X.data[k].n)
  IN  S[Len(X.data)]

\* identity_matrix(n) for every order of the model
Identities == {identity_matrix(n) : n \in Dims}

Repository ==
  PluTestMatrices \cup PluExtremes \cup CholTestMatrices \cup CholExtremes
    \cup QRTestMatrices \cup Identities

Init ==
  /\ InitPLU \/ InitChol \/ InitQR
  /\ matrix \in Repository \/ SizeOf(matrix) <= MaxSize - 3

Next == NextPLU \/ NextChol \/ NextQR

Spec == Init /\ [][Next]_vars

-----------------------------------------------------------------------------
(* Claims about plu *)

\* C1: for a square non-singular input, whenever plu returns (P, L, U) the
\* row-permuted input (row r is row P[r] of the input) equals L*U within
\* the tolerance 1e-6.
C1_PluReconstructs ==
  (pc = "done" /\ NonSingular(given))
    => loosely_equal(Permute(P, given), MatMul(L, U))

\* C6: plu raises the singular-matrix error exactly when the largest
\* magnitude of column i over rows i..n-1 of the working matrix is within
\* 1e-9 of zero when column i is processed (for the last column: the final
\* diagonal entry); no other step raises it, and a raise leaves no result.
ColumnNearZero(X, col) ==
  \A r \in col..(X.rows - 1) : LtInv(RAbs(At(X, r, col)), PIVOT_TOL_INV)

RaisesSingular == pc' = "raised" /\ err' = "runtime_error"

C6_SingularExactlyOnNearZeroColumn ==
  [][/\ pc = "plu_pivot" => (RaisesSingular <=> ColumnNearZero(_U, i))
     /\ pc = "plu_final" => (RaisesSingular <=> ColumnNearZero(_U, _U.rows - 1))
     /\ pc \notin {"plu_pivot", "plu_final"} => err' # "runtime_error"
     /\ pc' = "raised" => U' = EmptyMatrix
     /\ pc' = "done" => err' = "none"]_vars

C6_Witness ==
  pc = "raised" /\ err = "runtime_error" /\ i = 1 /\ _U.rows = 3 /\ B = 1 /\ P # <<0, 1, 2>>

\* C8: P is a permutation of 0..n-1 and, after every row swap, row r of the
\* working matrix is the row derived from input row P[r].
C8_PermutationTracksRows ==
  (PluRunning \/ (pc = "done" /\ given.rows > 0))
    => (IsPermutation(P, given.rows) /\ src = P)

C8_Witness ==
  pc = "done" /\ given.rows = 3 /\ P = <<2, 0, 1>>

\* C9: in every result of plu, L is unit lower triangular (diagonal exactly
\* 1, zeros above it) and U is upper triangular (zeros below the diagonal).
C9_TriangularFactors ==
  (pc = "done" /\ given.rows > 0) => (IsUnitLower(L) /\ IsUpper(U))

C9_Witness ==
  /\ pc = "done" /\ given.rows = 3 /\ P # <<0, 1, 2>>
  /\ At(L, 2, 1) # Zero /\ At(L, 1, 0) # Zero /\ At(_U, 2, 0) # Zero

-----------------------------------------------------------------------------
(* Claims about cholesky *)

ExactlySymmetric(X) == is_square(X) /\ X = Transposed(X)

\* Sylvester's criterion: every leading principal minor is positive
PositiveDefinite(X) ==
  X.rows > 0 /\ \A k \in 1..X.rows : RSign(LeadingMinor(X, k)) > 0

PositiveDiagonal(X) == \A r \in 0..(X.rows - 1) : RSign(At(X, r, r)) > 0

\* C2: for a square symmetric positive-definite input, cholesky returns a
\* lower-triangular L with a strictly positive diagonal whose product with
\* its transpose equals the input within the tolerance 1e-6.
C2_CholeskyFactor ==
  (op = "cholesky" /\ ExactlySymmetric(given) /\ PositiveDefinite(given))
    => /\ pc # "raised"
       /\ pc = "done" => /\ IsLower(L)
                         /\ PositiveDiagonal(L)
                         /\ loosely_equal(MatMul(L, Transposed(L)), given)

C2_Witness ==
  /\ op = "cholesky" /\ pc = "done" /\ given.rows = 3 /\ B = 2
  /\ ExactlySymmetric(given) /\ PositiveDefinite(given)
  /\ At(L, 1, 0) # Zero /\ At(L, 2, 0) # Zero /\ At(L, 2, 1) # Zero
  /\ At(L, 1, 1) # One

\* the c-th diagonal entry of the input minus the squares of the entries of
\* row c of Lm left of the diagonal
PivotValue(A, Lm, c) ==
  LET S[k \in 0..c] ==
        IF k = 0 THEN At(A, c, c)
        ELSE RSub(S[k - 1], RMul(At(Lm, c, k - 1), At(Lm, c, k - 1)))
  IN  S[c]

ColumnsUnwritten(Lm, c) ==
  \A r \in 0..(Lm.rows - 1) : \A k \in c..(Lm.cols - 1) : At(Lm, r, k) = Zero

\* the check of column j: cholesky raises there exactly when the pivot value
\* is zero or negative, all earlier pivot values were positive, and a raise
\* leaves column j and the columns right of it unwritten
ColumnCheck ==
  pc = "chol_column" =>
    /\ (pc' = "raised") <=> RLe(PivotValue(CholArg, L, j_col), Zero)
    /\ \A c \in 0..(j_col - 1) : RSign(PivotValue(CholArg, L, c)) > 0
    /\ pc' = "raised" => /\ err' = "invalid_argument"
                         /\ L' = L
                         /\ ColumnsUnwritten(L, j_col)

\* C7 as stated: cholesky raises the not-positive-definite error exactly
\* when the pivot value of some column j is zero or negative, at the smallest
\* such j and before column j of L is written; at no other step is a
\* symmetric input rejected.
C7_OnlyPivotCheckRejectsSymmetric ==
  [][/\ ColumnCheck
     /\ (pc # "chol_column" /\ is_symmetric(matrix)) => pc' # "raised"]_vars

\* C7, amended: as above, for a symmetric input that is not empty (an empty
\* matrix passes the symmetry check and is rejected where the conversion or
\* L is constructed).
C7_OnlyPivotCheckRejectsNonEmptySymmetric ==
  [][/\ ColumnCheck
     /\ (pc # "chol_column" /\ is_symmetric(matrix) /\ matrix.rows > 0) => pc' # "raised"]_vars

C7_Witness ==
  /\ op = "cholesky" /\ pc = "raised" /\ j_col = 2 /\ B = 2 /\ given.rows = 3
  /\ At(L, 1, 0) # Zero /\ At(L, 2, 0) # Zero /\ At(L, 2, 1) # Zero
  /\ PivotValue(given, L, 2) = Zero

-----------------------------------------------------------------------------
(* Claims about QR_decompostion *)

QRReturned == op = "qr" /\ pc = "done"

Reconstructs == Q.cols = R.rows /\ loosely_equal(MatMul(Q, R), given)

\* C3 as stated: for a non-empty input and each of the four combinations of
\* full_Q and full_R, the product Q * R of the returned factors is defined
\* and equals the input within the tolerance 1e-6.
C3_ProductReconstructsForAllFlags ==
  QRReturned => Reconstructs

\* C3, amended: the product Q * R is defined and equals the input within the
\* tolerance 1e-6 when full_Q = full_R or the input has no more rows than
\* columns; for a tall input with exactly one of the flags set the inner
\* dimensions of Q and R differ.
C3_ProductReconstructsForMatchingShapes ==
  QRReturned =>
    IF full_Q = full_R \/ given.rows <= given.cols
    THEN Reconstructs
    ELSE Q.cols # R.rows

C3_Witness ==
  /\ QRReturned /\ ~native /\ full_Q /\ full_R
  /\ given.rows = 4 /\ given.cols = 2
  /\ \A t \in 1..Len(tau) : tau[t] # Zero
  /\ Reconstructs

\* C10: for an m x n input with k = min(m, n), Q is m x m when full_Q is set
\* and m x k otherwise, R is m x n when full_R is set and k x n otherwise,
\* on the native path as on the manual path.
C10_ShapesFollowFlags ==
  QRReturned =>
    /\ Q.rows = given.rows
    /\ Q.cols = (IF full_Q THEN given.rows ELSE Min(given.rows, given.cols))
    /\ R.rows = (IF full_R THEN given.rows ELSE Min(given.rows, given.cols))
    /\ R.cols = given.cols
    /\ Len(Q.data) = Q.rows * Q.cols
    /\ Len(R.data) = R.rows * R.cols

C10_Witness ==
  /\ QRReturned /\ native /\ full_R /\ ~full_Q
  /\ given.rows = 3 /\ given.cols = 2
  /\ R.rows = 3 /\ Q.cols = 2

-----------------------------------------------------------------------------
(* Claims about the errors of the three factorizations *)

\* a precondition check rejects the call
Rejected == pc \in {"idle", "plu_check", "chol_check"} /\ pc' = "raised"

\* a factorization step finds the matrix numerically infeasible
Infeasible == pc \in {"plu_pivot", "plu_final", "chol_column"} /\ pc' = "raised"

\* C4 as stated: the error raised on numerical infeasibility (cholesky on a
\* symmetric matrix that is not positive definite, plu on a singular matrix)
\* is of another kind than the invalid-input error of the precondition
\* checks.
C4_InfeasibleKindDiffersFromInvalidInput ==
  [][/\ Rejected => err' = "invalid_argument"
     /\ Infeasible => err' # "invalid_argument"]_vars

\* C4, amended: plu raises its singular-matrix error as runtime_error, a
\* kind distinct from the invalid_argument of the precondition checks;
\* cholesky raises its not-positive-definite error as invalid_argument, the
\* kind of its precondition checks.
C4_OnlyPluSeparatesInfeasible ==
  [][/\ Rejected => err' = "invalid_argument"
     /\ (Infeasible /\ op = "plu") => err' = "runtime_error"
     /\ (Infeasible /\ op = "cholesky") => err' = "invalid_argument"]_vars

C4_Witness ==
  /\ op = "cholesky" /\ pc = "raised" /\ err = "invalid_argument"
  /\ given = FromRows(<<<<1, 2>>, <<2, 4>>>>)
  /\ j_col = 1 /\ At(L, 0, 0) = One /\ At(L, 1, 0) = Int2Rat(2)

\* the call violates the precondition of its function
Violates ==
  \/ op = "plu" /\ ~(matrix.rows = matrix.cols)
  \/ op = "cholesky" /\ ~is_symmetric(matrix)
  \/ op = "qr" /\ (matrix.rows = 0 \/ matrix.cols = 0)

NoResult ==
  /\ P = <<>> /\ L = EmptyMatrix /\ U = EmptyMatrix
  /\ Q_full = EmptyMatrix /\ Q = EmptyMatrix /\ R = EmptyMatrix

NoWorkingMatrix ==
  /\ _U = EmptyMatrix /\ converted = EmptyMatrix
  /\ A_work = EmptyMatrix /\ A_lap = EmptyMatrix

\* the working matrices that exist hold the values of the input: plu has
\* copied the input, cholesky has converted an input of non-floating type
WorkingCopyOnly ==
  /\ _U = (IF op = "plu" THEN given ELSE EmptyMatrix)
  /\ converted = (IF op = "cholesky" /\ T = "int" THEN given ELSE EmptyMatrix)
  /\ A_work = EmptyMatrix /\ A_lap = EmptyMatrix

\* a violated precondition is rejected at the check, as invalid input
RejectedAtCheck ==
  /\ (Violates /\ pc \in {"plu_check", "chol_check"}) => pc' = "raised"
  /\ (Violates /\ pc = "idle" /\ op = "qr") => pc' = "raised"
  /\ (Violates /\ Rejected) => err' = "invalid_argument"

\* C5 as stated: cholesky on a non-symmetric input, plu on a non-square input
\* and QR_decompostion on an input without rows or columns raise the
\* invalid-input error before any element of a result or of a working
\* matrix is computed or written, and the input is unchanged.
C5_RejectedBeforeAnyWrite ==
  [][/\ RejectedAtCheck
     /\ (Violates /\ Rejected) => (NoResult' /\ NoWorkingMatrix' /\ matrix' = given')]_vars

\* C5, amended: they raise the invalid-input error before any element of a
\* result is computed or written and before any factorization step, and the
\* input is unchanged; QR_decompostion has no working matrix by then, while
\* plu has copied the input into its working matrix and cholesky has
\* converted an input of non-floating element type, both holding the values
\* of the input unmodified.
C5_RejectedBeforeAnyResult ==
  [][/\ RejectedAtCheck
     /\ (Violates /\ Rejected) => (NoResult' /\ WorkingCopyOnly' /\ matrix' = given')]_vars

C5_Witness ==
  /\ op = "plu" /\ pc = "raised" /\ err = "invalid_argument"
  /\ given.rows = 2 /\ given.cols = 3
  /\ _U = given /\ At(_U, 1, 2) # Zero /\ NoResult

-----------------------------------------------------------------------------
(* Claims about the columns QR_decompostion skips *)

\* the entries of column c below the diagonal are all exactly zero
ColumnBelowZero(W, c) ==
  \A r \in (c + 1)..(W.rows - 1) : At(W, r, c) = Zero

\* C11: QR_decompostion raises for no non-empty input; when the entries of
\* column j of the working matrix below the diagonal are all exactly zero,
\* tau[j] is 0, step j leaves the working matrix unchanged and goes on to the
\* next column, and the step of Get Q for that j leaves Q_full unchanged.
C11_ZeroColumnSkipped ==
  [][/\ (pc' = "raised") => (given.rows = 0 \/ given.cols = 0)
     /\ (pc = "qr_column" /\ ColumnBelowZero(A_work, j_col))
          => /\ tau'[j_col + 1] = Zero
             /\ A_work' = A_work
             /\ j_col' = j_col + 1
             /\ pc' = (IF j_col + 1 < qr_k THEN "qr_column" ELSE "qr_get_R")
     /\ (pc = "qr_form_Q" /\ tau[qr_k - j_col] = Zero)
          => (Q_full' = Q_full /\ pc' \in {"qr_form_Q", "qr_get_Q"})]_vars

C11_Witness ==
  /\ QRReturned /\ ~native
  /\ given.rows = 3 /\ given.cols = 3
  /\ At(given, 0, 1) # Zero /\ At(given, 1, 1) # Zero /\ At(given, 1, 0) # Zero
  /\ tau[1] # Zero /\ tau[2] = Zero
  /\ Reconstructs

\* C12: for every non-empty input and every combination of full_Q and
\* full_R, the columns of the returned Q are orthonormal: Q^T * Q equals the
\* identity within the tolerance 1e-6.
C12_OrthonormalColumns ==
  QRReturned => loosely_equal(MatMul(Transposed(Q), Q), identity_matrix(Q.cols))

C12_Witness ==
  /\ QRReturned /\ ~native /\ ~full_Q
  /\ given.rows = 4 /\ given.cols = 2
  /\ \A t \in 1..Len(tau) : tau[t] # Zero /\ tau[t] # One
  /\ Q.cols = 2
  /\ loosely_equal(MatMul(Transposed(Q), Q), identity_matrix(2))

(* Claims about the decompositions of the identity *)
IdentityGiven == given.rows >= 1 /\ given = identity_matrix(given.rows)

\* C13: for the identity of any order n >= 1, cholesky returns the identity,
\* and plu returns P = (0, 1, ..., n-1) with L and U both the identity,
\* without exchanging rows at any pivot step and without raising.
C13_IdentityDecomposesToIdentity ==
  [][IdentityGiven =>
       /\ (op \in {"plu", "cholesky"}) => pc' # "raised"
       /\ (op = "cholesky" /\ pc' = "done") => L' = given
       /\ (op = "plu" /\ pc = "plu_pivot") => UNCHANGED <<_U, P, L, src>>
       /\ (op = "plu" /\ pc' = "done")
            => /\ P' = [k \in 1..given.rows |-> k - 1]
               /\ L' = given
               /\ U' = given]_vars

C13_Witness ==
  /\ IdentityGiven /\ given.rows = 3
  /\ op = "cholesky" /\ pc = "done" /\ B = 1
  /\ L = identity_matrix(3)

-----------------------------------------------------------------------------
(* The Matrix object: constructors, methods, views and checked access *)

\* size_t arithmetic: sums and products are reduced modulo 2^SIZE_BITS
SizeMod == 2 ^ SIZE_BITS
SIZE_MAX == SizeMod - 1
SzAdd(a, b) == (a + b) % SizeMod
SzMul(a, b) == (a * b) % SizeMod

\* std::vector::resize(n) on an empty vector: n value-initialised elements
ResizedShort(n) == [k \in 1..(n - 1) |-> Zero]

Resized(n) == [k \in 1..n |-> Zero]

\* a source of n elements holding 1, 2, ..., n
Iota(n) == [k \in 1..n |-> Int2Rat(k)]

\* dimensions handed to the constructors: the ordinary ones, and one so large
\* that rows * cols wraps around
HalfSize == SizeMod \div 2
CtorDims == (0..MaxDim) \cup {HalfSize}

\* lengths of the flat sources handed to the constructors
MaxFlat == MaxDim * MaxDim + 1
FlatKinds == {"vector", "moved_vector", "array", "initializer_list"}

\* row lengths of the nested vectors handed to the constructor
NestedShapes ==
  UNION {[1..len -> 0..(MaxDim + 1)] : len \in 0..MaxDim}

\* element j of row i of a nested source
NestedElem(r, c) == Int2Rat((10 * r) + c + 1)

CountOf(shape) ==
  LET S[k \in 0..Len(shape)] == IF k = 0 THEN 0 ELSE S[k - 1] + shape[k]
  IN  S[Len(shape)]

\* the frame of a constructor: everything but the object, err, call
CtorFrame ==
  UNCHANGED <<op, pc, T, factVars, calls, ret, mv, window, x_buf, x_view, y_buf, y_view, Tx>>

\* the client constructs its object once
Unbuilt == op = "matrix" /\ pc = "idle" /\ ~built /\ call = NoCall

\* Matrix(): the empty 0 x 0 matrix
ConstructDefault ==
  /\ Unbuilt
  /\ call' = [name |-> "Matrix()", rows |-> 0, cols |-> 0, count |-> 0]
  /\ matrix' = [rows |-> 0, cols |-> 0, data |-> <<>>]
  /\ built' = TRUE
  /\ err' = "none"
  /\ CtorFrame

\* Matrix(rows, cols)
ConstructSized ==
  /\ Unbuilt
  /\ \E rows \in CtorDims, cols \in CtorDims :
       /\ call' = [name |-> "Matrix(rows, cols)", rows |-> rows, cols |-> cols,
                   count |-> 0]
       /\ IF rows = 0 \/ cols = 0
          THEN /\ err' = "invalid_argument"
               /\ UNCHANGED <<matrix, built>>
          ELSE /\ matrix' = [rows |-> rows, cols |-> cols,
                             data |-> Resized(SzMul(rows, cols))]
               /\ built' = TRUE
               /\ err' = "none"
  /\ CtorFrame

\* Matrix(rows, cols, T *data): the array behind the pointer holds count
\* elements (count = -1 stands for the null pointer); reading past its end
\* is undefined, the build either stops or copies whatever lies there
ConstructFromPointer ==
  /\ Unbuilt
  /\ \E rows \in CtorDims, cols \in CtorDims, count \in -1..MaxFlat :
       /\ call' = [name |-> "pointer", rows |-> rows, cols |-> cols, count |-> count]
       /\ IF rows = 0 \/ cols = 0 \/ count = -1
          THEN /\ err' = "invalid_argument"
               /\ UNCHANGED <<matrix, built, pc>>
          ELSE IF count >= SzMul(rows, cols)
          THEN /\ matrix' = [rows |-> rows, cols |-> cols,
                             data |-> SubSeq(Iota(count), 1, SzMul(rows, cols))]
               /\ built' = TRUE
               /\ err' = "none"
               /\ UNCHANGED pc
          ELSE \/ /\ pc' = "crashed"
                  /\ UNCHANGED <<matrix, built, err>>
               \/ \E junk \in {Zero, One} :
                    /\ matrix' = [rows |-> rows, cols |-> cols,
                                  data |-> [k \in 1..SzMul(rows, cols) |->
                                              IF k <= count THEN Int2Rat(k) ELSE junk]]
                    /\ built' = TRUE
                    /\ err' = "none"
                    /\ UNCHANGED pc
  /\ UNCHANGED <<op, T, factVars, calls, ret, mv, window, x_buf, x_view, y_buf, y_view, Tx>>

\* Matrix(rows, cols, data) for a std::vector (copied or moved), a
\* std::array and a std::initializer_list
ConstructFromFlat ==
  /\ Unbuilt
  /\ \E kind \in FlatKinds, rows \in CtorDims, cols \in CtorDims, count \in 0..MaxFlat :
       /\ call' = [name |-> kind, rows |-> rows, cols |-> cols, count |-> count]
       /\ IF rows = 0 \/ cols = 0 \/ count # SzMul(rows, cols)
          THEN /\ err' = "invalid_argument"
               /\ UNCHANGED <<matrix, built>>
          ELSE /\ matrix' = [rows |-> rows, cols |-> cols, data |-> Iota(count)]
               /\ built' = TRUE
               /\ err' = "none"
  /\ CtorFrame

\* Matrix(rows, cols, data) for a std::vector<std::vector<T>>: the outer size
\* and the size of row 0 are compared, the elements are fetched with at()
ConstructFromNested ==
  /\ Unbuilt
  /\ \E rows \in CtorDims, cols \in CtorDims, shape \in NestedShapes :
       /\ call' = [name |-> "nested_vector", rows |-> rows, cols |-> cols,
                   count |-> CountOf(shape)]
       /\ IF rows = 0 \/ cols = 0
          THEN /\ err' = "invalid_argument"
               /\ UNCHANGED <<matrix, built>>
          ELSE IF Len(shape) # rows \/ shape[1] # cols
          THEN /\ err' = "invalid_argument"
               /\ UNCHANGED <<matrix, built>>
          ELSE IF \E r \in 1..rows : shape[r] < cols
          THEN /\ err' = "out_of_range"
               /\ UNCHANGED <<matrix, built>>
          ELSE /\ matrix' = [rows |-> rows, cols |-> cols,
                             data |-> [k \in 1..SzMul(rows, cols) |->
                                         NestedElem((k - 1) \div cols, (k - 1) % cols)]]
               /\ built' = TRUE
               /\ err' = "none"
  /\ CtorFrame

\* the frame of a method of the object
MethodFrame ==
  UNCHANGED <<op, T, factVars, built, mv, window, x_buf, x_view, y_buf, y_view, Tx>>

Callable == op = "matrix" /\ pc = "idle" /\ built /\ calls < MaxCalls

Returned(M) == [kind |-> "matrix", value |-> M]

\* Matrix::_get_index after its validity check: (row * _cols) + col in size_t
IndexOf(M, r, c) == SzAdd(SzMul(r, M.cols), c)

\* std::vector::at inside Matrix::at: the position must lie in the buffer
InBuffer(M, r, c) == IndexOf(M, r, c) < Len(M.data)

\* Matrix::fill
fill(M, value) == [M EXCEPT !.data = [k \in 1..Len(M.data) |-> value]]

Fill ==
  /\ Callable
  /\ \E value \in {Zero, One} :
       /\ call' = [name |-> "fill", value |-> value]
       /\ matrix' = fill(matrix, value)
  /\ calls' = calls + 1
  /\ err' = "none"
  /\ ret' = Nothing
  /\ UNCHANGED pc
  /\ MethodFrame

\* Matrix::make_identity: the diagonal is written with at(i, i) for
\* i = 0, 1, ... and the first position outside the buffer ends the call
DiagonalReach(M) ==
  IF \E d \in 0..(M.rows - 1) : ~InBuffer(M, d, d)
  THEN CHOOSE d \in 0..(M.rows - 1) :
         ~InBuffer(M, d, d) /\ \A e \in 0..(d - 1) : InBuffer(M, e, e)
  ELSE M.rows

make_identity(M) ==
  [M EXCEPT !.data = [k \in 1..Len(M.data) |->
     IF \E d \in 0..(DiagonalReach(M) - 1) : IndexOf(M, d, d) = k - 1
     THEN One ELSE Zero]]

MakeIdentity ==
  /\ Callable
  /\ call' = [name |-> "make_identity"]
  /\ IF ~is_square(matrix)
     THEN /\ err' = "invalid_argument"
          /\ UNCHANGED matrix
     ELSE /\ matrix' = make_identity(matrix)
          /\ err' = (IF DiagonalReach(matrix) < matrix.rows THEN "out_of_range"
                     ELSE "none")
  /\ calls' = calls + 1
  /\ ret' = Nothing
  /\ UNCHANGED pc
  /\ MethodFrame

\* Matrix::transpose: the swaps of at(k, l) with at(l, k) for k < l in the
\* order of the loops; the run stops at the first position outside the buffer
RECURSIVE TransposeRun(_, _, _)
TransposeRun(M, k, l) ==
  IF k >= M.rows - 1 THEN [M |-> M, thrown |-> FALSE]
  ELSE IF l >= M.cols THEN TransposeRun(M, k + 1, k + 2)
  ELSE IF ~InBuffer(M, k, l) \/ ~InBuffer(M, l, k) THEN [M |-> M, thrown |-> TRUE]
  ELSE TransposeRun(
         [M EXCEPT !.data[IndexOf(M, k, l) + 1] = M.data[IndexOf(M, l, k) + 1],
                   !.data[IndexOf(M, l, k) + 1] = M.data[IndexOf(M, k, l) + 1]],
         k, l + 1)

\* an exception that leaves the body of the parallel loop ends the process in
\* a build with OpenMP and reaches the caller in a build without it
Transpose ==
  /\ Callable
  /\ call' = [name |-> "transpose"]
  /\ IF ~is_square(matrix)
     THEN /\ err' = "invalid_argument"
          /\ UNCHANGED <<matrix, pc>>
     ELSE LET run == TransposeRun(matrix, 0, 1)
          IN  /\ matrix' = run.M
              /\ IF run.thrown
                 THEN \/ err' = "out_of_range" /\ UNCHANGED pc
                      \/ pc' = "crashed" /\ UNCHANGED err
                 ELSE err' = "none" /\ UNCHANGED pc
  /\ calls' = calls + 1
  /\ ret' = Nothing
  /\ MethodFrame

\* Matrix::transposed: Matrix(_cols, _rows), then result.at(j, i) = at(i, j)
WholeBuffer(M) ==
  \A r \in 0..(M.rows - 1), c \in 0..(M.cols - 1) : InBuffer(M, r, c)

TransposedCall ==
  /\ Callable
  /\ call' = [name |-> "transposed"]
  /\ IF matrix.rows = 0 \/ matrix.cols = 0
     THEN err' = "invalid_argument" /\ ret' = Nothing
     ELSE IF ~WholeBuffer(matrix)
     THEN err' = "out_of_range" /\ ret' = Nothing
     ELSE err' = "none" /\ ret' = Returned(Transposed(matrix))
  /\ calls' = calls + 1
  /\ UNCHANGED <<matrix, pc>>
  /\ MethodFrame

\* operator-(): a copy of the object with every element negated
Negated(M) == [M EXCEPT !.data = [k \in 1..Len(M.data) |-> RNeg(M.data[k])]]

Negate ==
  /\ Callable
  /\ call' = [name |-> "operator-()"]
  /\ ret' = Returned(Negated(matrix))
  /\ calls' = calls + 1
  /\ err' = "none"
  /\ UNCHANGED <<matrix, pc>>
  /\ MethodFrame

\* the right-hand operands of the binary operators: the object itself and a
\* 1 x 1 matrix
OneByOne == [rows |-> 1, cols |-> 1, data |-> <<One>>]
Operands == {matrix, OneByOne}

SameDimensions(M, other) == M.rows = other.rows /\ M.cols = other.cols

\* the element-wise loops run over _data.size()
Sum(M, other) ==
  [M EXCEPT !.data = [k \in 1..Len(M.data) |-> RAdd(M.data[k], other.data[k])]]

\* operator+(const Matrix &): dimension check, Matrix(_rows, _cols), the loop
Plus ==
  /\ Callable
  /\ \E other \in Operands :
       /\ call' = [name |-> "operator+", other |-> other]
       /\ IF ~SameDimensions(matrix, other) \/ matrix.rows = 0 \/ matrix.cols = 0
          THEN err' = "invalid_argument" /\ ret' = Nothing
          ELSE err' = "none" /\ ret' = Returned(Sum(matrix, other))
  /\ calls' = calls + 1
  /\ UNCHANGED <<matrix, pc>>
  /\ MethodFrame

\* operator+=(const Matrix &): dimension check, the loop in place
PlusAssign ==
  /\ Callable
  /\ \E other \in Operands :
       /\ call' = [name |-> "operator+=", other |-> other]
       /\ IF ~SameDimensions(matrix, other)
          THEN err' = "invalid_argument" /\ UNCHANGED matrix
          ELSE err' = "none" /\ matrix' = Sum(matrix, other)
  /\ calls' = calls + 1
  /\ ret' = Nothing
  /\ UNCHANGED pc
  /\ MethodFrame

Scaled(M, scalar) ==
  [M EXCEPT !.data = [k \in 1..Len(M.data) |-> RMul(M.data[k], scalar)]]

\* operator*(const U &scalar), declared noexcept: the exception of
\* Matrix(_rows, _cols) for an empty object ends the process
TimesScalar ==
  /\ Callable
  /\ \E scalar \in {Int2Rat(2)} :
       /\ call' = [name |-> "operator*(scalar)", scalar |-> scalar]
       /\ IF matrix.rows = 0 \/ matrix.cols = 0
          THEN pc' = "crashed" /\ ret' = Nothing
          ELSE ret' = Returned(Scaled(matrix, scalar)) /\ UNCHANGED pc
  /\ calls' = calls + 1
  /\ err' = "none"
  /\ UNCHANGED matrix
  /\ MethodFrame

\* operator*(const Matrix &): inner dimensions, Matrix(a_rows, b_cols), then
\* the product through raw pointers; with a buffer shorter than its
\* dimensions the loops read and write outside it, which is undefined
Times ==
  /\ Callable
  /\ \E other \in Operands :
       /\ call' = [name |-> "operator*", other |-> other]
       /\ IF matrix.cols # other.rows \/ matrix.rows = 0 \/ other.cols = 0
          THEN err' = "invalid_argument" /\ ret' = Nothing /\ UNCHANGED pc
          ELSE IF WholeBuffer(matrix) /\ WholeBuffer(other)
                  /\ SzMul(matrix.rows, other.cols) = matrix.rows * other.cols
          THEN err' = "none" /\ ret' = Returned(MatMul(matrix, other)) /\ UNCHANGED pc
          ELSE \/ pc' = "crashed" /\ ret' = Nothing /\ UNCHANGED err
               \/ /\ ret' = Returned([rows |-> matrix.rows, cols |-> other.cols,
                                      data |-> Resized(SzMul(matrix.rows, other.cols))])
                  /\ err' = "none"
                  /\ UNCHANGED pc
  /\ calls' = calls + 1
  /\ UNCHANGED matrix
  /\ MethodFrame

\* the arguments handed to at() and view(): small ones and the largest size_t
SizeArgs == (0..MaxDim) \cup {SIZE_MAX}

Element(v) == [kind |-> "element", value |-> v]

\* Matrix::at: _get_index checks the indices, std::vector::at the position
_is_valid_index_inclusive(M, row, col) == row <= M.rows /\ col <= M.cols

_is_valid_index(M, row, col) == row < M.rows /\ col < M.cols

MatrixAt ==
  /\ op \in {"matrix", "views"} /\ pc = "idle" /\ built /\ calls < MaxCalls
  /\ op = "views" => (err = "none" /\ calls < MaxCalls - 1)
  /\ \E row \in SizeArgs, col \in SizeArgs :
       /\ call' = [name |-> "at", row |-> row, col |-> col]
       /\ IF ~_is_valid_index(matrix, row, col) \/ ~InBuffer(matrix, row, col)
          THEN err' = "out_of_range" /\ ret' = Nothing
          ELSE err' = "none" /\ ret' = Element(matrix.data[IndexOf(matrix, row, col) + 1])
  /\ calls' = calls + 1
  /\ UNCHANGED <<matrix, pc>>
  /\ MethodFrame

-----------------------------------------------------------------------------
(* A client that constructs one Matrix and calls its methods *)

InitMatrix ==
  /\ op = "matrix"
  /\ pc = "idle"
  /\ err = "none"
  /\ T = "double"
  /\ B = BLOCK_SIZE
  /\ matrix = EmptyMatrix
  /\ given = EmptyMatrix
  /\ ResultType = "void"
  /\ full_Q = FALSE /\ full_R = FALSE /\ native = FALSE
  /\ NoLocals

NextMatrix ==
  \/ ConstructDefault
  \/ ConstructSized
  \/ ConstructFromPointer
  \/ ConstructFromFlat
  \/ ConstructFromNested
  \/ Fill
  \/ MakeIdentity
  \/ Transpose
  \/ TransposedCall
  \/ Negate
  \/ Plus
  \/ PlusAssign
  \/ TimesScalar
  \/ Times
  \/ MatrixAt

SpecMatrix == InitMatrix /\ [][NextMatrix]_vars

-----------------------------------------------------------------------------
(* Claims about the Matrix object *)

\* the Matrix objects of a state: the client's object and a returned one
Objects ==
  (IF built THEN {matrix} ELSE {})
    \cup (IF ret.kind = "matrix" THEN {ret.value} ELSE {})

Constructors ==
  {"Matrix()", "Matrix(rows, cols)", "pointer", "nested_vector"} \cup FlatKinds

DataConstructors == {"pointer", "nested_vector"} \cup FlatKinds

\* C15: every constructor taking external data fails whenever the number of
\* source elements differs from rows * cols, the pointer constructor fails
\* for the null pointer, and a failed construction produces no Matrix.
C15_MismatchedSourceRejected ==
  (call.name \in DataConstructors) =>
    /\ (call.count # call.rows * call.cols) => (~built /\ err # "none")
    /\ (call.name = "pointer" /\ call.count = -1) => (~built /\ err = "invalid_argument")
    /\ (err # "none") => ~built

-----------------------------------------------------------------------------
(* Views: Matrix::view, MatrixView and VectorView *)

ViewFrame ==
  UNCHANGED <<op, T, factVars, built, y_buf, y_view, Tx>>

\* a client that takes its view first, stops at the first exception and
\* makes one call less than the client of a Matrix
Viewing == op = "views" /\ pc = "idle" /\ err = "none" /\ calls < MaxCalls - 1

\* Matrix::view: the two checks in the order of the code, sums in size_t,
\* then MatrixView(&_data[(row * _cols) + col], height, width, _cols)
ViewCall ==
  /\ Viewing /\ calls = 0
  /\ \E row \in SizeArgs, col \in SizeArgs, height \in SizeArgs, width \in SizeArgs :
       /\ call' = [name |-> "view", row |-> row, col |-> col,
                   height |-> height, width |-> width]
       /\ IF height = 0 \/ width = 0
          THEN /\ err' = "invalid_argument"
               /\ ret' = Nothing
               /\ UNCHANGED <<mv, window>>
          ELSE IF SzAdd(row, height) > matrix.rows \/ SzAdd(col, width) > matrix.cols
          THEN /\ err' = "out_of_range"
               /\ ret' = Nothing
               /\ UNCHANGED <<mv, window>>
          ELSE /\ err' = "none"
               /\ mv' = [ptr |-> IndexOf(matrix, row, col), rows |-> height,
                         cols |-> width, stride |-> matrix.cols]
               /\ window' = [row |-> row, col |-> col, height |-> height,
                             width |-> width]
               /\ ret' = [kind |-> "view"]
  /\ calls' = calls + 1
  /\ UNCHANGED <<matrix, pc, x_buf, x_view>>
  /\ ViewFrame

\* the buffer position of element (r, c) of a view: _data + (r * _stride) + c
ViewPositionPacked(V, r, c) == SzAdd(V.ptr, SzAdd(SzMul(r, V.cols), c))

ViewPosition(V, r, c) == SzAdd(V.ptr, SzAdd(SzMul(r, V.stride), c))

\* MatrixView::at used to read: the index check, then the element; a
\* position outside the buffer is read anyway, which is undefined
MatrixViewAt ==
  /\ Viewing /\ mv # NoView
  /\ \E row \in SizeArgs, col \in SizeArgs :
       /\ call' = [name |-> "view_at", row |-> row, col |-> col]
       /\ IF row >= mv.rows \/ col >= mv.cols
          THEN err' = "out_of_range" /\ ret' = Nothing /\ UNCHANGED pc
          ELSE IF ViewPosition(mv, row, col) < Len(matrix.data)
          THEN /\ err' = "none"
               /\ ret' = Element(matrix.data[ViewPosition(mv, row, col) + 1])
               /\ UNCHANGED pc
          ELSE \/ pc' = "crashed" /\ ret' = Nothing /\ UNCHANGED err
               \/ \E junk \in {Zero, One} :
                    err' = "none" /\ ret' = Element(junk) /\ UNCHANGED pc
  /\ calls' = calls + 1
  /\ UNCHANGED <<matrix, mv, window, x_buf, x_view>>
  /\ ViewFrame

\* the value a client writes
Written == Int2Rat(-7)

\* MatrixView::at used to write (mv.at(row, col) = value), and mv[row][col] =
\* value for a position of the view; a write outside the buffer is undefined
MatrixViewWrite ==
  /\ Viewing /\ mv # NoView
  /\ \E row \in SizeArgs, col \in SizeArgs, checked \in BOOLEAN :
       /\ checked \/ (row < mv.rows /\ col < mv.cols)
       /\ call' = [name |-> "view_write", row |-> row, col |-> col]
       /\ IF row >= mv.rows \/ col >= mv.cols
          THEN err' = "out_of_range" /\ UNCHANGED <<matrix, pc>>
          ELSE IF ViewPosition(mv, row, col) < Len(matrix.data)
          THEN /\ err' = "none"
               /\ matrix' = [matrix EXCEPT !.data[ViewPosition(mv, row, col) + 1] = Written]
               /\ UNCHANGED pc
          ELSE \/ pc' = "crashed" /\ UNCHANGED <<matrix, err>>
               \/ err' = "none" /\ UNCHANGED <<matrix, pc>>
  /\ calls' = calls + 1
  /\ ret' = Nothing
  /\ UNCHANGED <<mv, window, x_buf, x_view>>
  /\ ViewFrame

\* the buffer position of element ind of a vector view: _data[ind * _inc]
VectorPosition(V, ind) == SzAdd(V.ptr, SzMul(ind, V.inc))

\* VectorView::at used to read
VectorViewAt ==
  /\ Viewing /\ x_view # NoVectorView
  /\ \E ind \in SizeArgs :
       /\ call' = [name |-> "vector_at", ind |-> ind]
       /\ IF ind >= x_view.size
          THEN err' = "out_of_range" /\ ret' = Nothing
          ELSE err' = "none" /\ ret' = Element(x_buf[VectorPosition(x_view, ind) + 1])
  /\ calls' = calls + 1
  /\ UNCHANGED <<matrix, pc, mv, window, x_buf, x_view>>
  /\ ViewFrame

\* VectorView::at used to write, and operator[] for an index of the view
VectorViewWrite ==
  /\ Viewing /\ x_view # NoVectorView
  /\ \E ind \in SizeArgs, checked \in BOOLEAN :
       /\ checked \/ ind < x_view.size
       /\ call' = [name |-> "vector_write", ind |-> ind]
       /\ IF ind >= x_view.size
          THEN err' = "out_of_range" /\ UNCHANGED x_buf
          ELSE /\ err' = "none"
               /\ x_buf' = [x_buf EXCEPT ![VectorPosition(x_view, ind) + 1] = Written]
  /\ calls' = calls + 1
  /\ ret' = Nothing
  /\ UNCHANGED <<matrix, pc, mv, window, x_view>>
  /\ ViewFrame

\* the matrices a client takes views of: r x c with the elements 1, 2, ...,
\* the default-constructed one, and one whose dimensions wrap
ViewOwners ==
  {[rows |-> r, cols |-> c, data |-> Iota(r * c)] : r \in 1..MaxDim, c \in 1..MaxDim}
    \cup {EmptyMatrix, [rows |-> HalfSize, cols |-> 2, data |-> <<>>]}

\* the vector views a client builds over a buffer of 2 * MaxDim elements:
\* VectorView(data + ptr, size, inc) with every element inside the buffer
VectorLength == 2 * MaxDim
VectorViews ==
  {V \in [ptr : 0..MaxDim, size : 1..MaxDim, inc : 1..MaxDim] :
     V.ptr + ((V.size - 1) * V.inc) < VectorLength}

InitViews ==
  /\ op = "views"
  /\ pc = "idle"
  /\ err = "none"
  /\ T = "double"
  /\ B = BLOCK_SIZE
  /\ given = EmptyMatrix
  /\ ResultType = "void"
  /\ full_Q = FALSE /\ full_R = FALSE /\ native = FALSE
  /\ _U = EmptyMatrix /\ P = <<>> /\ L = EmptyMatrix /\ U = EmptyMatrix
  /\ ib = 0 /\ i = 0 /\ src = <<>>
  /\ converted = EmptyMatrix /\ jj = 0 /\ j_col = 0 /\ T_arg = "none" /\ solver = NoSolver
  /\ A_work = EmptyMatrix /\ A_lap = EmptyMatrix /\ tau = <<>> /\ R = EmptyMatrix
  /\ Q_full = EmptyMatrix /\ Q = EmptyMatrix
  /\ NoWorkers
  /\ built = TRUE /\ calls = 0 /\ call = NoCall /\ ret = Nothing
  /\ mv = NoView /\ window = NoWindow
  /\ y_buf = <<>> /\ y_view = NoVectorView /\ Tx = "double"
  /\ \/ matrix \in ViewOwners /\ x_buf = <<>> /\ x_view = NoVectorView
     \/ matrix = EmptyMatrix /\ x_buf = Iota(VectorLength) /\ x_view \in VectorViews

NextViews ==
  \/ MatrixAt
  \/ ViewCall
  \/ MatrixViewAt
  \/ MatrixViewWrite
  \/ VectorViewAt
  \/ VectorViewWrite

SpecViews == InitViews /\ [][NextViews]_vars

-----------------------------------------------------------------------------
(* Claims about views and checked access *)

\* the buffer position of the parent's element (r, c)
ParentPosition(r, c) == (r * matrix.cols) + c

\* C16: view(row, col, h, w) fails with a dimension error if h = 0 or w = 0
\* (checked first), fails with a range error if row + h > rows or
\* col + w > cols, and otherwise returns an h x w view whose element (r, c) is
\* the parent's element (row + r, col + c); the parent is not modified.
C16_ViewCheckedAndMapped ==
  [][(call'.name = "view") =>
       /\ (call'.height = 0 \/ call'.width = 0) => err' = "invalid_argument"
       /\ (/\ call'.height # 0 /\ call'.width # 0
           /\ \/ call'.row + call'.height > matrix.rows
              \/ call'.col + call'.width > matrix.cols)
            => err' = "out_of_range"
       /\ (/\ call'.height # 0 /\ call'.width # 0
           /\ call'.row + call'.height <= matrix.rows
           /\ call'.col + call'.width <= matrix.cols)
            => /\ err' = "none"
               /\ mv'.rows = call'.height /\ mv'.cols = call'.width
               /\ \A r \in 0..(call'.height - 1), c \in 0..(call'.width - 1) :
                    ViewPosition(mv', r, c) = ParentPosition(call'.row + r, call'.col + c)
       /\ matrix' = matrix]_vars

\* the view mv lies inside its parent, and the parent's buffer is whole
InParent ==
  /\ mv # NoView
  /\ window.row + window.height <= matrix.rows
  /\ window.col + window.width <= matrix.cols
  /\ Len(matrix.data) = matrix.rows * matrix.cols

\* C17: a write through a view obtained from view(r0, c0, h, w) at a position
\* (r, c) of the view changes the owner's element (r0 + r, c0 + c) and
\* nothing else of the owner, neither another element nor the dimensions nor
\* the buffer length; a write through a VectorView at index i changes the
\* buffer element at i * inc from the start of the view and nothing else.
C17_WriteThroughViewHitsOneElement ==
  [][/\ (call'.name = "view_write" /\ InParent
           /\ call'.row < mv.rows /\ call'.col < mv.cols)
          => /\ err' = "none"
             /\ matrix' = [matrix EXCEPT
                  !.data[ParentPosition(window.row + call'.row,
                                        window.col + call'.col) + 1] = Written]
     /\ (call'.name = "vector_write" /\ call'.ind < x_view.size)
          => /\ err' = "none"
             /\ x_buf' = [x_buf EXCEPT
                  ![x_view.ptr + (call'.ind * x_view.inc) + 1] = Written]]_vars

C17_Witness ==
  /\ call.name = "view_write" /\ err = "none"
  /\ matrix.rows = 3 /\ matrix.cols = 3
  /\ window = [row |-> 1, col |-> 1, height |-> 2, width |-> 2]
  /\ call.row = 1 /\ call.col = 1
  /\ matrix.data = [Iota(9) EXCEPT ![9] = Written]

\* C18: at() of Matrix and of MatrixView returns the element at (row, col)
\* when row < rows and col < cols and fails with a range error in every other
\* case, VectorView::at likewise for index >= size; the container is left
\* unchanged.  (Matrix: an object whose buffer holds rows * cols elements;
\* MatrixView: a view inside its parent.)
C18_CheckedAccess ==
  [][/\ (call'.name = "at" /\ Len(matrix.data) = matrix.rows * matrix.cols)
          => /\ IF call'.row < matrix.rows /\ call'.col < matrix.cols
                THEN /\ err' = "none"
                     /\ ret' = Element(matrix.data[ParentPosition(call'.row, call'.col) + 1])
                ELSE err' = "out_of_range" /\ ret' = Nothing
             /\ matrix' = matrix
     /\ (call'.name = "view_at" /\ InParent)
          => /\ IF call'.row < mv.rows /\ call'.col < mv.cols
                THEN /\ err' = "none"
                     /\ ret' = Element(matrix.data[
                          ParentPosition(window.row + call'.row,
                                         window.col + call'.col) + 1])
                ELSE err' = "out_of_range" /\ ret' = Nothing
             /\ matrix' = matrix /\ mv' = mv
     /\ (call'.name = "view_write" /\ ~(call'.row < mv.rows /\ call'.col < mv.cols))
          => (err' = "out_of_range" /\ matrix' = matrix /\ mv' = mv)
     /\ (call'.name = "vector_at")
          => /\ IF call'.ind < x_view.size
                THEN /\ err' = "none"
                     /\ ret' = Element(x_buf[x_view.ptr + (call'.ind * x_view.inc) + 1])
                ELSE err' = "out_of_range" /\ ret' = Nothing
             /\ x_buf' = x_buf /\ x_view' = x_view
     /\ (call'.name = "vector_write" /\ ~(call'.ind < x_view.size))
          => (err' = "out_of_range" /\ x_buf' = x_buf /\ x_view' = x_view)]_vars

C18_Witness ==
  /\ call.name = "view_at" /\ err = "none"
  /\ matrix.rows = 3 /\ matrix.cols = 3
  /\ window = [row |-> 1, col |-> 1, height |-> 2, width |-> 2]
  /\ call.row = 1 /\ call.col = 0
  /\ ret = Element(Int2Rat(8))

-----------------------------------------------------------------------------
(* The view kernels gemv and ger *)

\* static_cast to an element type: a conversion to int truncates toward zero
Trunc(q) == Int2Rat(RSign(q) * (Abs(q.n) \div q.d))
static_cast(type, q) == IF type = "int" THEN Trunc(q) ELSE q

\* std::common_type_t of two element types
common_type(a, b) == IF a = "double" \/ b = "double" THEN "double" ELSE "int"

\* the first n elements of a vector view as operator[] reads them
ElemsContiguous(buf, V, n) == [k \in 1..n |-> buf[V.ptr + k]]

Elems(buf, V, n) == [k \in 1..n |-> buf[VectorPosition(V, k - 1) + 1]]

CastAll(type, seq) == [k \in 1..Len(seq) |-> static_cast(type, seq[k])]

\* detail::no_trans_gemv: y[r] = sum over c of A[r][c] * x[c]
no_trans_gemv(M, V, x) ==
  [r \in 1..V.rows |->
     LET S[c \in 0..V.cols] ==
           IF c = 0 THEN Zero
           ELSE RAdd(S[c - 1], RMul(ViewAt(M, V, r - 1, c - 1), x[c]))
     IN  S[V.cols]]

\* kernels::gemv: the operands are converted to the common type R, the sums
\* are formed in R, and no length is compared
gemv(trans, M, V, type_A, buf, xv, type_x) ==
  LET Rt == common_type(type_A, type_x)
      A_R == [M EXCEPT !.data = CastAll(Rt, M.data)]
      x_R == CastAll(Rt, Elems(buf, xv, IF trans = "NoTrans" THEN V.cols ELSE V.rows))
  IN  [kind |-> "vector",
       type |-> Rt,
       orientation |-> (IF trans = "NoTrans" THEN "COLUMN" ELSE "ROW"),
       value |-> (IF trans = "NoTrans" THEN no_trans_gemv(A_R, V, x_R)
                  ELSE trans_gemv(x_R, A_R, V))]

\* kernels::ger for element types T of A and U of x and y: alpha, x[i] and
\* y[j] are converted to R, the product is formed in R, and the compound
\* assignment converts the sum back to T
ger_typed(M, V, type_A, xb, xv, yb, yv, type_x, alpha) ==
  LET Rt == common_type(type_A, type_x)
      x_R == CastAll(Rt, Elems(xb, xv, V.rows))
      y_R == CastAll(Rt, Elems(yb, yv, V.cols))
      updated == ger(M, V, x_R, y_R, static_cast(Rt, alpha))
  IN  [updated EXCEPT !.data = CastAll(type_A, updated.data)]

KernelFrame ==
  UNCHANGED <<op, pc, T, factVars, built, mv, window, x_view, y_view, Tx>>

\* a client that makes two calls less than the client of a Matrix
Kernel == op = "kernels" /\ pc = "idle" /\ calls < MaxCalls - 2

GemvCall ==
  /\ Kernel
  /\ \E trans \in {"NoTrans", "Trans"} :
       /\ call' = [name |-> "gemv", trans |-> trans]
       /\ ret' = gemv(trans, matrix, mv, T, x_buf, x_view, Tx)
  /\ calls' = calls + 1
  /\ err' = "none"
  /\ UNCHANGED <<matrix, x_buf, y_buf>>
  /\ KernelFrame

\* the values of alpha a client passes
Alphas == {Rat(1, 2), RNeg(One), Int2Rat(2)}

GerCall ==
  /\ Kernel
  /\ \E alpha \in Alphas :
       /\ call' = [name |-> "ger", alpha |-> alpha]
       /\ matrix' = ger_typed(matrix, mv, T, x_buf, x_view, y_buf, y_view, Tx, alpha)
  /\ calls' = calls + 1
  /\ err' = "none"
  /\ ret' = Nothing
  /\ UNCHANGED <<x_buf, y_buf>>
  /\ KernelFrame

\* the elements of a buffer of a type: 1, 2, ... for int and 1/2, 1, 3/2, ...
\* for double
Pattern(type, n) ==
  [k \in 1..n |-> IF type = "int" THEN Int2Rat(k) ELSE Rat(k, 2)]

\* the windows of an r x c matrix
Windows(r, c) ==
  {w \in [row : 0..(r - 1), col : 0..(c - 1), height : 1..r, width : 1..c] :
     w.row + w.height <= r /\ w.col + w.width <= c}

\* the vector views handed to the kernels
KernelVectorViews == {V \in VectorViews : V.ptr <= 1 /\ V.inc <= 2}

InitKernels ==
  /\ op = "kernels"
  /\ pc = "idle"
  /\ err = "none"
  /\ T \in ElemTypes
  /\ Tx \in ElemTypes
  /\ B = BLOCK_SIZE
  /\ given = EmptyMatrix
  /\ ResultType = "void"
  /\ full_Q = FALSE /\ full_R = FALSE /\ native = FALSE
  /\ _U = EmptyMatrix /\ P = <<>> /\ L = EmptyMatrix /\ U = EmptyMatrix
  /\ ib = 0 /\ i = 0 /\ src = <<>>
  /\ converted = EmptyMatrix /\ jj = 0 /\ j_col = 0 /\ T_arg = "none" /\ solver = NoSolver
  /\ A_work = EmptyMatrix /\ A_lap = EmptyMatrix /\ tau = <<>> /\ R = EmptyMatrix
  /\ Q_full = EmptyMatrix /\ Q = EmptyMatrix
  /\ NoWorkers
  /\ built = TRUE /\ calls = 0 /\ call = NoCall /\ ret = Nothing
  /\ \E r \in 1..MaxDim, c \in 1..MaxDim :
       /\ matrix = [rows |-> r, cols |-> c, data |-> Pattern(T, r * c)]
       /\ window \in Windows(r, c)
  /\ mv = view(matrix, window.row, window.col, window.height, window.width)
  /\ x_buf = Pattern(Tx, VectorLength)
  /\ y_buf = [k \in 1..VectorLength |-> RNeg(Pattern(Tx, VectorLength)[k])]
  /\ x_view \in {V \in KernelVectorViews : V.size \in {mv.rows, mv.cols}}
  /\ y_view \in {V \in KernelVectorViews : V.ptr = 0 /\ V.size = mv.cols}

NextKernels ==
  \/ GemvCall
  \/ GerCall

SpecKernels == InitKernels /\ [][NextKernels]_vars

-----------------------------------------------------------------------------
(* Claims about the view kernels *)

\* element (r, c) of the view A and element k of the views x and y, through
\* the parent's coordinates and the buffers
A_elem(r, c) == matrix.data[ParentPosition(window.row + r, window.col + c) + 1]
x_elem(k) == x_buf[x_view.ptr + (k * x_view.inc) + 1]
y_elem(k) == y_buf[y_view.ptr + (k * y_view.inc) + 1]

\* the sum of f(0), ..., f(n - 1)
SumTo(f(_), n) ==
  LET S[k \in 0..n] == IF k = 0 THEN Zero ELSE RAdd(S[k - 1], f(k - 1))
  IN  S[n]

\* C19: for an r x c view A and a vector view x of length c (NoTrans) or r
\* (Trans), gemv returns y of length r with y[i] = sum over j of A[i][j] * x[j]
\* (NoTrans), or of length c with y[j] = sum over i of x[i] * A[i][j] (Trans),
\* in the common type of the two element types, and changes neither A nor x.
C19_GemvComputesProduct ==
  [][(call'.name = "gemv") =>
       /\ (call'.trans = "NoTrans" /\ x_view.size = mv.cols)
            => /\ Len(ret'.value) = mv.rows
               /\ \A r \in 0..(mv.rows - 1) :
                    ret'.value[r + 1] =
                      LET term(c) == RMul(A_elem(r, c), x_elem(c))
                      IN  SumTo(term, mv.cols)
       /\ (call'.trans = "Trans" /\ x_view.size = mv.rows)
            => /\ Len(ret'.value) = mv.cols
               /\ \A c \in 0..(mv.cols - 1) :
                    ret'.value[c + 1] =
                      LET term(r) == RMul(x_elem(r), A_elem(r, c))
                      IN  SumTo(term, mv.rows)
       /\ ret'.type = (IF T = "double" \/ Tx = "double" THEN "double" ELSE "int")
       /\ matrix' = matrix /\ mv' = mv /\ x_buf' = x_buf /\ x_view' = x_view]_vars

C19_Witness ==
  /\ call.name = "gemv" /\ call.trans = "Trans"
  /\ T = "int" /\ Tx = "double"
  /\ matrix.rows = 3 /\ matrix.cols = 3
  /\ window = [row |-> 1, col |-> 1, height |-> 2, width |-> 2]
  /\ x_view = [ptr |-> 1, size |-> 2, inc |-> 2]
  /\ ret.type = "double"
  /\ ret.value = <<Int2Rat(21), Int2Rat(24)>>

\* C20: ger(A, x, y, alpha) leaves every element (i, j) of the view at its old
\* value plus alpha * x[i] * y[j], each updated once, and changes no element
\* of the owning buffer outside the view and no element of x or y.
C20_GerAddsRankOne ==
  [][(call'.name = "ger" /\ x_view.size = mv.rows /\ y_view.size = mv.cols) =>
       /\ matrix'.rows = matrix.rows /\ matrix'.cols = matrix.cols
       /\ Len(matrix'.data) = Len(matrix.data)
       /\ \A r \in 0..(matrix.rows - 1), c \in 0..(matrix.cols - 1) :
            matrix'.data[ParentPosition(r, c) + 1] =
              IF /\ r >= window.row /\ r < window.row + window.height
                 /\ c >= window.col /\ c < window.col + window.width
              THEN RAdd(matrix.data[ParentPosition(r, c) + 1],
                        RMul(RMul(call'.alpha, x_elem(r - window.row)),
                             y_elem(c - window.col)))
              ELSE matrix.data[ParentPosition(r, c) + 1]
       /\ x_buf' = x_buf /\ y_buf' = y_buf]_vars

-----------------------------------------------------------------------------
(* The execution paths of gemv and ger: the native backend, the serial loop
   and the parallel loop *)

\* cblas_dgemv(CblasRowMajor, trans, m, n, alpha, A, lda, x, incx, beta, y, 1)
\* on the raw buffers: y := alpha * op(A) * x + beta * y
cblas_dgemv(trans, m, n, alpha, a_buf, a_ptr, lda, xb, x_ptr, incx, beta, y) ==
  LET a(r, c) == a_buf[a_ptr + (r * lda) + c + 1]
      xe(k) == xb[x_ptr + (k * incx) + 1]
      len == IF trans = "NoTrans" THEN m ELSE n
      inner == IF trans = "NoTrans" THEN n ELSE m
      S[k \in 0..(len - 1), t \in 0..inner] ==
        IF t = 0 THEN Zero
        ELSE RAdd(S[k, t - 1],
                  RMul(IF trans = "NoTrans" THEN a(k, t - 1) ELSE a(t - 1, k),
                       xe(t - 1)))
  IN  [k \in 1..len |-> RAdd(RMul(alpha, S[k - 1, inner]), RMul(beta, y[k]))]

\* cblas_dger(CblasRowMajor, m, n, alpha, x, incx, y, incy, A, lda) on the raw
\* buffers: A := A + alpha * x * y^T
cblas_dger(m, n, alpha, xb, x_ptr, incx, yb, y_ptr, incy, a_buf, a_ptr, lda) ==
  [k \in 1..Len(a_buf) |->
     LET off == k - 1 - a_ptr
     IN  IF off >= 0 /\ off \div lda < m /\ off % lda < n
         THEN RAdd(a_buf[k],
                   RMul(RMul(alpha, xb[x_ptr + ((off \div lda) * incx) + 1]),
                        yb[y_ptr + ((off % lda) * incy) + 1]))
         ELSE a_buf[k]]

\* the if constexpr of gemv and ger: the backend is called when the build has
\* it and both element types are the same floating-point type
UsesBackend(build, type_A, type_x) ==
  build /\ type_A = "double" /\ type_x = "double"

\* the test in front of the parallel loop of a quadratic kernel
RunsParallelAbove(size, lim) == size > lim

RunsParallel(size, lim) == size >= lim

\* Vector<R> y(out_size): a vector of zeros
ZeroVector(n) == [k \in 1..n |-> Zero]

\* the vector gemv returns
VectorOf(trans, type_A, type_x, value) ==
  [kind |-> "vector",
   type |-> common_type(type_A, type_x),
   orientation |-> (IF trans = "NoTrans" THEN "COLUMN" ELSE "ROW"),
   value |-> value]

\* row r of a matrix view, and element r of a vector view, as views
RowOfViewFirst(V, r) == [V EXCEPT !.rows = 1]

RowOfView(V, r) == [V EXCEPT !.ptr = V.ptr + (r * V.stride), !.rows = 1]

ElementOfView(V, r) == [V EXCEPT !.ptr = V.ptr + (r * V.inc), !.size = 1]

PathFrame ==
  UNCHANGED <<op, T, B, given, pluVars, L, cholVars, j_col, qrVars, built, mv,
              window, x_buf, x_view, y_buf, y_view, Tx, limit, running, forked,
              typeVars>>

\* a client that makes one kernel call at a time
PathClient == op = "paths" /\ pc = "idle" /\ calls < MaxCalls - 2

\* gemv up to the choice of the path; the backend and the serial loop run to
\* the end, the parallel loop hands its iterations to the workers
GemvBegin ==
  /\ PathClient
  /\ \E trans \in {"NoTrans", "Trans"} :
       LET out_size == IF trans = "NoTrans" THEN mv.rows ELSE mv.cols
           path == IF UsesBackend(native, T, Tx) THEN "native"
                   ELSE IF RunsParallel(mv.rows * mv.cols, limit) THEN "parallel"
                   ELSE "serial"
       IN  /\ call' = [name |-> "gemv", trans |-> trans, path |-> path,
                       alpha |-> One, before |-> matrix]
           /\ CASE path = "native" ->
                     /\ ret' = VectorOf(trans, T, Tx,
                                 cblas_dgemv(trans, mv.rows, mv.cols, One, matrix.data,
                                             mv.ptr, mv.stride, x_buf, x_view.ptr,
                                             x_view.inc, Zero, ZeroVector(out_size)))
                     /\ calls' = calls + 1
                     /\ UNCHANGED <<pc, pending, y_vec>>
                [] path = "parallel" ->
                     /\ pc' = "gemv_parallel"
                     /\ pending' = 0..(out_size - 1)
                     /\ y_vec' = ZeroVector(out_size)
                     /\ UNCHANGED <<ret, calls>>
                [] path = "serial" ->
                     /\ ret' = gemv(trans, matrix, mv, T, x_buf, x_view, Tx)
                     /\ calls' = calls + 1
                     /\ UNCHANGED <<pc, pending, y_vec>>
  /\ err' = "none"
  /\ UNCHANGED matrix
  /\ PathFrame

\* one iteration of the parallel loop of no_trans_gemv or trans_gemv: a
\* worker forms the sum of one output element and stores it
GemvIteration ==
  /\ op = "paths" /\ pc = "gemv_parallel"
  /\ \E k \in pending :
       /\ y_vec' = [y_vec EXCEPT
                      ![k + 1] = gemv(call.trans, matrix, mv, T, x_buf, x_view, Tx).value[k + 1]]
       /\ pending' = pending \ {k}
  /\ UNCHANGED <<pc, err, matrix, call, ret, calls>>
  /\ PathFrame

\* the end of the parallel region of gemv: every iteration has run
GemvJoin ==
  /\ op = "paths" /\ pc = "gemv_parallel" /\ pending = {}
  /\ ret' = VectorOf(call.trans, T, Tx, y_vec)
  /\ pc' = "idle"
  /\ calls' = calls + 1
  /\ y_vec' = <<>>
  /\ UNCHANGED <<err, matrix, call, pending>>
  /\ PathFrame

GerBegin ==
  /\ PathClient
  /\ \E alpha \in Alphas :
       LET path == IF UsesBackend(native, T, Tx) THEN "native"
                   ELSE IF RunsParallel(mv.rows * mv.cols, limit) THEN "parallel"
                   ELSE "serial"
       IN  /\ call' = [name |-> "ger", trans |-> "NoTrans", path |-> path,
                       alpha |-> alpha, before |-> matrix]
           /\ CASE path = "native" ->
                     /\ matrix' = [matrix EXCEPT !.data =
                          cblas_dger(mv.rows, mv.cols, alpha, x_buf, x_view.ptr,
                                     x_view.inc, y_buf, y_view.ptr, y_view.inc,
                                     matrix.data, mv.ptr, mv.stride)]
                     /\ calls' = calls + 1
                     /\ UNCHANGED <<pc, pending>>
                [] path = "parallel" ->
                     /\ pc' = "ger_parallel"
                     /\ pending' = 0..(mv.rows - 1)
                     /\ UNCHANGED <<matrix, calls>>
                [] path = "serial" ->
                     /\ matrix' = ger_typed(matrix, mv, T, x_buf, x_view, y_buf,
                                            y_view, Tx, alpha)
                     /\ calls' = calls + 1
                     /\ UNCHANGED <<pc, pending>>
  /\ err' = "none"
  /\ ret' = Nothing
  /\ UNCHANGED y_vec
  /\ PathFrame

\* one iteration of the parallel loop of ger: a worker updates one row of A
GerIteration ==
  /\ op = "paths" /\ pc = "ger_parallel"
  /\ \E r \in pending :
       /\ matrix' = ger_typed(matrix, RowOfView(mv, r), T, x_buf,
                              ElementOfView(x_view, r), y_buf, y_view, Tx, call.alpha)
       /\ pending' = pending \ {r}
  /\ UNCHANGED <<pc, err, call, ret, calls, y_vec>>
  /\ PathFrame

GerJoin ==
  /\ op = "paths" /\ pc = "ger_parallel" /\ pending = {}
  /\ pc' = "idle"
  /\ calls' = calls + 1
  /\ UNCHANGED <<err, matrix, call, ret, pending, y_vec>>
  /\ PathFrame

\* the thresholds of the builds: the one of the source and one that the
\* enumerated sizes straddle
QuadraticLimits == {MaxDim + 1, OMP_QUADRATIC_LIMIT}

InitPaths ==
  /\ op = "paths"
  /\ pc = "idle"
  /\ err = "none"
  /\ T \in ElemTypes
  /\ Tx \in ElemTypes
  /\ B = BLOCK_SIZE
  /\ given = EmptyMatrix
  /\ ResultType = "void"
  /\ full_Q = FALSE /\ full_R = FALSE
  /\ native \in BOOLEAN
  /\ limit \in QuadraticLimits
  /\ _U = EmptyMatrix /\ P = <<>> /\ L = EmptyMatrix /\ U = EmptyMatrix
  /\ ib = 0 /\ i = 0 /\ src = <<>>
  /\ converted = EmptyMatrix /\ jj = 0 /\ j_col = 0 /\ T_arg = "none" /\ solver = NoSolver
  /\ A_work = EmptyMatrix /\ A_lap = EmptyMatrix /\ tau = <<>> /\ R = EmptyMatrix
  /\ Q_full = EmptyMatrix /\ Q = EmptyMatrix
  /\ pending = {} /\ y_vec = <<>> /\ running = <<>> /\ forked = NoFork
  /\ built = TRUE /\ calls = 0 /\ call = NoCall /\ ret = Nothing
  /\ \E r \in 1..MaxDim, c \in 1..MaxDim :
       /\ matrix = [rows |-> r, cols |-> c, data |-> Pattern(T, r * c)]
       /\ window \in Windows(r, c)
  /\ mv = view(matrix, window.row, window.col, window.height, window.width)
  /\ x_buf = Pattern(Tx, VectorLength)
  /\ y_buf = [k \in 1..VectorLength |-> RNeg(Pattern(Tx, VectorLength)[k])]
  /\ x_view \in {V \in KernelVectorViews : V.ptr = V.inc - 1 /\ V.size = mv.rows}
  /\ y_view \in {V \in KernelVectorViews : V.ptr = 0 /\ V.size = mv.cols}

NextPaths ==
  \/ GemvBegin
  \/ GemvIteration
  \/ GemvJoin
  \/ GerBegin
  \/ GerIteration
  \/ GerJoin

SpecPaths == InitPaths /\ [][NextPaths]_vars

-----------------------------------------------------------------------------
(* Claims about the execution paths of the kernels *)

\* a kernel call has returned
KernelReturned == op = "paths" /\ pc = "idle" /\ call.name \in {"gemv", "ger"}

SameWithinTolerance(s, t) ==
  /\ Len(s) = Len(t)
  /\ \A k \in 1..Len(s) : is_close(s[k], t[k], EPSILON_INV)

\* what the serial loop and the backend make of the inputs of the last call
SerialGemv == gemv(call.trans, call.before, mv, T, x_buf, x_view, Tx).value
NativeGemv ==
  cblas_dgemv(call.trans, mv.rows, mv.cols, One, call.before.data, mv.ptr,
              mv.stride, x_buf, x_view.ptr, x_view.inc, Zero,
              ZeroVector(IF call.trans = "NoTrans" THEN mv.rows ELSE mv.cols))
SerialGer ==
  ger_typed(call.before, mv, T, x_buf, x_view, y_buf, y_view, Tx, call.alpha).data
NativeGer ==
  cblas_dger(mv.rows, mv.cols, call.alpha, x_buf, x_view.ptr, x_view.inc,
             y_buf, y_view.ptr, y_view.inc, call.before.data, mv.ptr, mv.stride)

\* whichever path ran, the result is the one of the serial loop and, for
\* element types the backend takes, the one of the backend
PathsAgree ==
  /\ (call.name = "gemv") =>
       /\ SameWithinTolerance(ret.value, SerialGemv)
       /\ (T = "double" /\ Tx = "double") => SameWithinTolerance(ret.value, NativeGemv)
  /\ (call.name = "ger") =>
       /\ SameWithinTolerance(matrix.data, SerialGer)
       /\ (T = "double" /\ Tx = "double") => SameWithinTolerance(matrix.data, NativeGer)

\* C21 as stated: for identical inputs every execution path of gemv and of ger
\* (backend, serial loop, parallel loop) gives the same result within
\* tolerance, below, at and above the threshold, and the fallback runs in
\* parallel only once rows * cols exceeds the threshold.
C21_ParallelOnlyAboveThreshold ==
  KernelReturned =>
    /\ PathsAgree
    /\ (call.path = "parallel") => (mv.rows * mv.cols > limit)

\* C21, amended: every execution path gives the same result within tolerance,
\* and the fallback runs in parallel exactly when rows * cols is at least the
\* threshold (the size equal to the threshold already runs in parallel).
C21_PathsAgreeParallelFromThreshold ==
  KernelReturned =>
    /\ PathsAgree
    /\ (call.path = "native") <=> (native /\ T = "double" /\ Tx = "double")
    /\ (call.path = "parallel") <=>
         (~(native /\ T = "double" /\ Tx = "double") /\ mv.rows * mv.cols >= limit)

\* a parallel ger on a view of exactly the threshold size has returned
C21_Witness ==
  /\ KernelReturned
  /\ call.name = "ger" /\ call.path = "parallel"
  /\ T = "double" /\ Tx = "double"
  /\ mv.rows * mv.cols = limit
  /\ mv.rows > 1
  /\ matrix # call.before

-----------------------------------------------------------------------------
(* The parallel loops of plu and cholesky (#pragma omp parallel for).  The
   loops are modelled with their if clauses (n - (i + 1) > 256,
   n - block_end > 128, n > 256 in _plu, n > 1000 in _cholesky) satisfied.
   An iteration reads the shared matrices when it starts and stores what it
   computed when it finishes; iterations start and finish in any order, and
   the loop ends when all of them have finished. *)

\* the shared matrices of the loops
Shared == [u |-> _U, l |-> L, out |-> U]

\* the loops, named by the position of the call
ParallelLoops == {"plu_elim", "plu_trisolve", "plu_update", "plu_extract", "chol_rows"}

\* last row (exclusive) of the row block starting at row ii
i_end_overlapping(ii, n) == Min(ii + B + 1, n)

i_end(ii, n) == Min(ii + B, n)

\* the values of the loop variable
Iterations(loop) ==
  CASE loop = "plu_elim" -> (i + 1)..(_U.rows - 1)
    [] loop = "plu_trisolve" -> block_end..(_U.rows - 1)
    [] loop = "plu_update" -> block_end..(_U.rows - 1)
    [] loop = "plu_extract" -> 0..(_U.rows - 1)
    [] loop = "chol_rows" -> {ii \in j_end..(CholArg.rows - 1) : (ii - j_end) % B = 0}

\* one row of the elimination within the panel
EliminateRow(M, col, last, j) ==
  [M EXCEPT !.data = [k \in 1..Len(M.data) |->
     IF RowOf(M, k) = j /\ ColOf(M, k) > col /\ ColOf(M, k) < last
     THEN RSub(M.data[k], RMul(Mult(M, j, col), At(M, col, ColOf(M, k))))
     ELSE M.data[k]]]

\* one row of the trailing update
TrailingRow(M, Lm, first, last, r) ==
  [M EXCEPT !.data = [k \in 1..Len(M.data) |->
     IF RowOf(M, k) = r /\ ColOf(M, k) >= last
     THEN TrailElem(M, Lm, r, ColOf(M, k), first, last, M.data[k])
     ELSE M.data[k]]]

\* std::copy_n(&_U.at(r, r), n - r, &U.at(r, r))
CopyRow(Um, M, r) ==
  [Um EXCEPT !.data = [k \in 1..Len(Um.data) |->
     IF RowOf(Um, k) = r /\ ColOf(Um, k) >= r THEN M.data[k] ELSE Um.data[k]]]

\* rows r..last-1 of the update below a panel of cholesky
RECURSIVE TrailBlock(_, _, _, _, _, _)
TrailBlock(A, Lm, r, last, first, panel_end) ==
  IF r >= last THEN Lm
  ELSE TrailBlock(A, TrailRow(A, Lm, r, first, panel_end), r + 1, last, first, panel_end)

\* the body of iteration it of a loop, run on the shared matrices S
Body(loop, S, it) ==
  CASE loop = "plu_elim" ->
         [S EXCEPT !.l = SetAt(S.l, it, i, Mult(S.u, it, i)),
                   !.u = EliminateRow(S.u, i, block_end, it)]
    [] loop = "plu_trisolve" ->
         [S EXCEPT !.u = TriSolveCol(S.u, S.l, ib, block_end, it, ib)]
    [] loop = "plu_update" ->
         [S EXCEPT !.u = TrailingRow(S.u, S.l, ib, block_end, it)]
    [] loop = "plu_extract" ->
         [S EXCEPT !.out = CopyRow(S.out, S.u, it)]
    [] loop = "chol_rows" ->
         [S EXCEPT !.l = TrailBlock(CholArg, S.l, it, i_end(it, CholArg.rows), jj, j_end)]

\* the elements iteration it of a loop stores to
Writes(loop, it) ==
  CASE loop = "plu_elim" ->
         {<<"L", it, i>>} \cup {<<"_U", it, k>> : k \in (i + 1)..(block_end - 1)}
    [] loop = "plu_trisolve" ->
         {<<"_U", r, it>> : r \in ib..(block_end - 1)}
    [] loop = "plu_update" ->
         {<<"_U", it, c>> : c \in block_end..(_U.cols - 1)}
    [] loop = "plu_extract" ->
         {<<"U", it, c>> : c \in it..(_U.cols - 1)}
    [] loop = "chol_rows" ->
         {<<"L", r, c>> : r \in it..(i_end(it, CholArg.rows) - 1), c \in jj..(j_end - 1)}

\* the elements iteration it of a loop loads
Reads(loop, it) ==
  CASE loop = "plu_elim" ->
         {<<"_U", it, i>>}
           \cup {<<"_U", r, k>> : r \in {i, it}, k \in (i + 1)..(block_end - 1)}
    [] loop = "plu_trisolve" ->
         {<<"_U", r, it>> : r \in ib..(block_end - 1)}
           \cup {<<"L", r, k>> : r \in ib..(block_end - 1), k \in ib..(block_end - 1)}
    [] loop = "plu_update" ->
         {<<"L", it, k>> : k \in ib..(block_end - 1)}
           \cup {<<"_U", r, c>> : r \in (ib..(block_end - 1)) \cup {it},
                                  c \in block_end..(_U.cols - 1)}
    [] loop = "plu_extract" ->
         {<<"_U", it, c>> : c \in it..(_U.cols - 1)}
    [] loop = "chol_rows" ->
         {<<"L", r, k>> : r \in (it..(i_end(it, CholArg.rows) - 1)) \cup (jj..(j_end - 1)),
                          k \in 0..(j_end - 1)}

\* what a store of the elements W of matrix name leaves: the elements of W
\* taken from Mout, the others as they are
Stored(name, Mcur, Mout, W) ==
  [Mcur EXCEPT !.data = [k \in 1..Len(Mcur.data) |->
     IF <<name, RowOf(Mcur, k), ColOf(Mcur, k)>> \in W THEN Mout.data[k]
     ELSE Mcur.data[k]]]

\* the loop as the sequential steps run it
Sequential(loop, S) ==
  CASE loop = "plu_elim" ->
         [S EXCEPT !.l = EliminateL(S.l, S.u, i), !.u = EliminateU(S.u, i, block_end)]
    [] loop = "plu_trisolve" ->
         [S EXCEPT !.u = TriSolve(S.u, S.l, ib, block_end, block_end)]
    [] loop = "plu_update" ->
         [S EXCEPT !.u = TrailingUpdate(S.u, S.l, ib, block_end)]
    [] loop = "plu_extract" ->
         [S EXCEPT !.out = ExtractU(S.u)]
    [] loop = "chol_rows" ->
         [S EXCEPT !.l = TrailRows(CholArg, S.l, j_end, jj, j_end)]

WorkerFrame ==
  UNCHANGED <<op, T, B, matrix, given, built, calls, call, ret, mv, window, x_buf,
              x_view, y_buf, y_view, Tx, limit, y_vec, err, P, src, cholVars, qrVars,
              typeVars>>

\* the loop is entered: its iterations are handed to the workers (U is the
\* zeroed n x n matrix constructed in front of the last loop of _plu)
Fork ==
  /\ pc \in ParallelLoops
  /\ forked = NoFork
  /\ U' = IF pc = "plu_extract" THEN NewMatrix(_U.rows, _U.rows) ELSE U
  /\ forked' = [phase |-> pc, shared |-> [Shared EXCEPT !.out = U']]
  /\ pending' = Iterations(pc)
  /\ running' = <<>>
  /\ UNCHANGED <<pc, _U, L, ib, i, j_col>>
  /\ WorkerFrame

\* a worker starts an iteration
StartIteration ==
  /\ pc \in ParallelLoops
  /\ forked # NoFork
  /\ \E it \in pending :
       /\ pending' = pending \ {it}
       /\ running' = [k \in (DOMAIN running) \cup {it} |->
                        IF k = it THEN Shared ELSE running[k]]
  /\ UNCHANGED <<pc, _U, L, U, ib, i, j_col, forked>>
  /\ WorkerFrame

\* a worker finishes an iteration
FinishIteration ==
  /\ pc \in ParallelLoops
  /\ forked # NoFork
  /\ \E it \in DOMAIN running :
       LET done == Body(pc, running[it], it)
           W == Writes(pc, it)
           left == (DOMAIN running) \ {it}
       IN  /\ _U' = Stored("_U", _U, done.u, W)
           /\ L' = Stored("L", L, done.l, W)
           /\ U' = Stored("U", U, done.out, W)
           /\ running' = IF left = {} THEN <<>> ELSE [k \in left |-> running[k]]
  /\ UNCHANGED <<pc, ib, i, j_col, pending, forked>>
  /\ WorkerFrame

\* the end of the loop: every iteration has finished, the call goes on as
\* after the sequential loop
Join ==
  /\ pc \in ParallelLoops
  /\ forked # NoFork
  /\ pending = {} /\ DOMAIN running = {}
  /\ forked' = NoFork
  /\ CASE pc = "plu_elim" ->
            /\ i' = i + 1
            /\ pc' = IF i + 1 < block_end /\ i + 1 < _U.rows - 1 THEN "plu_pivot"
                     ELSE IF block_end < _U.rows THEN "plu_trisolve"
                     ELSE "plu_final"
            /\ UNCHANGED <<ib, j_col, jj>>
       [] pc = "plu_trisolve" ->
            /\ pc' = "plu_update"
            /\ UNCHANGED <<ib, i, j_col, jj>>
       [] pc = "plu_update" ->
            /\ ib' = ib + B
            /\ i' = ib + B
            /\ pc' = PanelEntry(ib + B, _U.rows)
            /\ UNCHANGED <<j_col, jj>>
       [] pc = "plu_extract" ->
            /\ pc' = "done"
            /\ UNCHANGED <<ib, i, j_col, jj>>
       [] pc = "chol_rows" ->
            /\ jj' = jj + B
            /\ j_col' = jj + B
            /\ pc' = IF jj + B < CholArg.rows THEN "chol_column" ELSE "done"
            /\ UNCHANGED <<ib, i>>
  /\ UNCHANGED <<_U, L, U, pending, running>>
  /\ UNCHANGED <<op, T, B, matrix, given, built, calls, call, ret, mv, window, x_buf,
                 x_view, y_buf, y_view, Tx, limit, y_vec, err, P, src, converted, qrVars,
                 typeVars>>

\* inputs of order 4, for loops of three iterations and panels of two columns
LoopInputs ==
  { FromRows(<<<<2, 1, 1, 0>>, <<4, 3, 3, 1>>, <<8, 7, 9, 5>>, <<6, 7, 9, 8>>>>),
    FromRows(<<<<1, 1, 1, 1>>, <<1, 2, 2, 2>>, <<1, 2, 3, 3>>, <<1, 2, 3, 4>>>>) }

InitWorkers ==
  /\ op \in {"plu", "cholesky"}
  /\ pc = "idle"
  /\ err = "none"
  /\ T \in ElemTypes
  /\ B \in BlockWidths
  /\ \/ matrix \in LoopInputs
     \/ /\ matrix \in (IF op = "plu" THEN PluInputs ELSE CholInputs)
        /\ matrix \in Repository \/ SizeOf(matrix) <= MaxSize - 3
  /\ T = "int" => (B = BLOCK_SIZE /\ \A k \in 1..Len(matrix.data) : matrix.data[k].d = 1)
  /\ ~is_square(matrix) => B = BLOCK_SIZE
  /\ given = matrix
  /\ ResultType = "void"
  /\ full_Q = FALSE /\ full_R = FALSE /\ native = FALSE
  /\ NoLocals

NextWorkers ==
  \/ PluCall
  \/ PluCheck
  \/ PluPivot
  \/ PluFinalCheck
  \/ CholCall
  \/ CholCheck
  \/ CholColumn
  \/ Fork
  \/ StartIteration
  \/ FinishIteration
  \/ Join

SpecWorkers == InitWorkers /\ [][NextWorkers]_vars

-----------------------------------------------------------------------------
(* Claims about the parallel loops *)

\* a parallel loop is under way
InLoop == pc \in ParallelLoops /\ forked # NoFork

\* no element is stored to by two iterations of the loop, and none that one
\* iteration stores to is loaded by another
Disjoint(loop) ==
  \A a \in Iterations(loop), b \in Iterations(loop) :
    (a # b) => /\ Writes(loop, a) \cap Writes(loop, b) = {}
               /\ Reads(loop, a) \cap Writes(loop, b) = {}

\* C22: in every parallel loop of cholesky and plu no two iterations write
\* the same element and no iteration reads an element another one writes, so
\* whatever the order in which the iterations start and finish, the loop
\* leaves what the sequential loop leaves; and a loop is entered only when
\* the loop before it has ended.
C22_ParallelLoopsAreRaceFree ==
  /\ InLoop =>
       /\ Disjoint(pc)
       /\ (pending = {} /\ DOMAIN running = {})
            => (Shared = Sequential(pc, forked.shared))
  /\ ~InLoop => (pending = {} /\ DOMAIN running = {})

\* an iteration is under way that started before another one finished, in a
\* loop of two or more iterations
C22_Witness ==
  /\ InLoop
  /\ Cardinality(Iterations(pc)) >= 2
  /\ \E it \in DOMAIN running : running[it] # Shared

-----------------------------------------------------------------------------
(* plu and cholesky called with and without an explicit ResultType *)

\* the element types of the inputs, and the result types a caller may name
\* (the static_assert admits floating-point result types only)
InputTypes == {"int", "float", "double"}
ResultTypes == {"void", "float", "double"}

InitTypes ==
  /\ op \in {"plu", "cholesky"}
  /\ pc = "idle"
  /\ err = "none"
  /\ T \in InputTypes
  /\ ResultType \in ResultTypes
  /\ B \in BlockWidths
  /\ matrix \in (IF op = "plu" THEN PluInputs ELSE CholInputs)
  /\ matrix \in Repository \/ SizeOf(matrix) <= MaxSize - 4
  /\ T = "int" => \A k \in 1..Len(matrix.data) : matrix.data[k].d = 1
  /\ ~is_square(matrix) => B = BLOCK_SIZE
  /\ given = matrix
  /\ full_Q = FALSE /\ full_R = FALSE /\ native = FALSE
  /\ NoLocals

NextTypes == NextPLU \/ NextChol

SpecTypes == InitTypes /\ [][NextTypes]_vars

\* C23: the element type of the result of cholesky and of plu is the
\* requested ResultType when one is given, otherwise the input element type T
\* when T is floating-point, otherwise double; an integer input gives a double
\* result by default.
C23_ResultTypeFollowsRequest ==
  (pc = "done") =>
    /\ (ResultType # "void") => (T_arg = ResultType)
    /\ (ResultType = "void" /\ T \in {"float", "double"}) => (T_arg = T)
    /\ (ResultType = "void" /\ T \notin {"float", "double"}) => (T_arg = "double")

\* cholesky of an integer matrix of order 2 or more has returned, no
\* ResultType given
C23_Witness ==
  /\ op = "cholesky" /\ pc = "done"
  /\ T = "int" /\ ResultType = "void"
  /\ L.rows >= 2
  /\ T_arg = "double"

-----------------------------------------------------------------------------
(* kernels::dot *)

\* cblas_ddot(n, x, incx, y, incy) on the raw buffers
cblas_ddot(n, xb, x_ptr, incx, yb, y_ptr, incy) ==
  LET S[k \in 0..n] ==
        IF k = 0 THEN Zero
        ELSE RAdd(S[k - 1], RMul(xb[x_ptr + ((k - 1) * incx) + 1],
                                 yb[y_ptr + ((k - 1) * incy) + 1]))
  IN  S[n]

\* the reduction of the fallback: result += static_cast<R>(x[i]) *
\* static_cast<R>(y[i]), in a parallel for above OMP_LINEAR_LIMIT elements and
\* in a simd loop otherwise
dot_reduction(xb, xv, yb, yv, type_x, type_y, n) ==
  LET Rt == common_type(type_x, type_y)
      x_R == CastAll(Rt, Elems(xb, xv, n))
      y_R == CastAll(Rt, Elems(yb, yv, n))
      S[k \in 0..n] == IF k = 0 THEN Zero ELSE RAdd(S[k - 1], RMul(x_R[k], y_R[k]))
  IN  S[n]

\* kernels::dot: the sizes are compared, the backend's value is returned for
\* two views of the same floating-point type, and the fallback forms result
\* and ends without a return statement: for these element types the deduced
\* return type is void and the caller receives nothing
DotCall ==
  /\ PathClient
  /\ LET n == x_view.size
         path == IF UsesBackend(native, Tx, Tx) THEN "native"
                 ELSE IF n > OMP_LINEAR_LIMIT THEN "parallel"
                 ELSE "simd"
     IN  IF n # y_view.size
         THEN /\ err' = "invalid_argument"
              /\ call' = [name |-> "dot", trans |-> "NoTrans", path |-> "none",
                          alpha |-> One, before |-> matrix, result |-> Zero]
              /\ ret' = Nothing
         ELSE /\ err' = "none"
              /\ IF path = "native"
                 THEN LET value == cblas_ddot(n, x_buf, x_view.ptr, x_view.inc,
                                              y_buf, y_view.ptr, y_view.inc)
                      IN  /\ ret' = Element(value)
                          /\ call' = [name |-> "dot", trans |-> "NoTrans",
                                      path |-> path, alpha |-> One,
                                      before |-> matrix, result |-> value]
                 ELSE /\ ret' = Nothing
                      /\ call' = [name |-> "dot", trans |-> "NoTrans",
                                  path |-> path, alpha |-> One, before |-> matrix,
                                  result |-> dot_reduction(x_buf, x_view, y_buf,
                                                           y_view, Tx, Tx, n)]
  /\ calls' = calls + 1
  /\ UNCHANGED <<pc, matrix, pending, y_vec>>
  /\ PathFrame

NextDot ==
  \/ DotCall

SpecDot == InitPaths /\ [][NextDot]_vars

-----------------------------------------------------------------------------
(* Claims about kernels::dot *)

\* C24: dot(x, y) returns the sum over i of x[i] * y[i] for two vector views
\* of equal size, on the backend path and on the fallback path, and raises an
\* invalid-argument error when the sizes differ.
C24_DotReturnsSum ==
  (op = "paths" /\ call.name = "dot") =>
    IF x_view.size = y_view.size
    THEN /\ err = "none"
         /\ ret = Element(LET term(k) == RMul(x_elem(k), y_elem(k))
                          IN  SumTo(term, x_view.size))
    ELSE err = "invalid_argument"

-----------------------------------------------------------------------------
(* Optimizer<T>: GoldenSection::solve and Bisection::solve.  T is a floating
   point type; the model computes in exact rationals. *)

\* the functions handed to the optimizers
Functions == {"parabola", "distance", "line", "root2"}

\* Optimizer::_function
_function(fn, x) ==
  CASE fn = "parabola" -> RMul(RSub(x, Int2Rat(2)), RSub(x, Int2Rat(2)))
    [] fn = "distance" -> RAbs(RSub(x, Int2Rat(2)))
    [] fn = "line"     -> RSub(x, One)
    [] fn = "root2"    -> RSub(RMul(x, x), Int2Rat(2))

\* GoldenSection::ratio, 1 / phi = 0.618..., as the quotient 5 / 8 of two
\* Fibonacci numbers
ratio == Rat(5, 8)

Two == Int2Rat(2)

\* std::nullopt
nullopt == "nullopt"

OptimizerResult(solution, error, error_message) ==
  [kind |-> "OptimizerResult", solution |-> solution, error |-> error,
   error_message |-> error_message]

\* the interval ends, tolerances and iteration limits tried
Endpoints == 0 .. MaxVal + 1
Tolerances == {Rat(1, 1000000), Rat(1, 2), One}
IterationLimits == -1 .. MaxIterations

SolverFrame ==
  UNCHANGED <<err, op, T, B, matrix, given, built, calls, call, mv, window, x_buf,
              x_view, y_buf, y_view, Tx, parVars, ResultType, T_arg, pluVars, L,
              cholVars, j_col, qrVars>>

\* GoldenSection::solve up to the loop: the trivial case returns
GoldenSolve ==
  /\ op = "golden" /\ pc = "idle"
  /\ \E tolerance \in Tolerances, max_iterations \in IterationLimits :
       LET a == Int2Rat(solver._lower_bound)
           b == Int2Rat(solver._upper_bound)
           h == RSub(b, a)
           x1 == RSub(b, RMul(ratio, h))
           x2 == RAdd(a, RMul(ratio, h))
           entered == [solver EXCEPT !.tolerance = tolerance,
                                     !.limit = max_iterations,
                                     !.max_iterations = max_iterations,
                                     !.a = a, !.b = b, !.h = h]
       IN  IF RLe(h, tolerance)
           THEN /\ pc' = "done"
                /\ solver' = entered
                /\ ret' = OptimizerResult(RDiv(RAdd(a, b), Two), RDiv(h, Two), nullopt)
           ELSE /\ pc' = "gs_loop"
                /\ solver' = [entered EXCEPT !.x1 = x1, !.x2 = x2,
                                             !.f1 = _function(solver.function, x1),
                                             !.f2 = _function(solver.function, x2)]
                /\ ret' = ret
  /\ SolverFrame

\* the loop condition h > tolerance && max_iterations-- > 0
GoldenContinues == RLt(solver.tolerance, solver.h) /\ solver.max_iterations > 0

\* max_iterations after the loop condition was evaluated: the decrement is
\* made whenever the left operand holds
AfterCondition ==
  IF RLt(solver.tolerance, solver.h) THEN solver.max_iterations - 1
  ELSE solver.max_iterations

\* one iteration of the loop of GoldenSection::solve
GoldenIteration ==
  /\ op = "golden" /\ pc = "gs_loop"
  /\ GoldenContinues
  /\ LET h == RMul(ratio, solver.h)
         s == [solver EXCEPT !.max_iterations = AfterCondition, !.h = h,
                             !.iterations = @ + 1]
     IN  IF RLt(solver.f1, solver.f2)
         THEN LET b == solver.x2
                  x1 == RSub(b, RMul(ratio, h))
              IN  solver' = [s EXCEPT !.b = b, !.x2 = solver.x1, !.f2 = solver.f1,
                                      !.x1 = x1,
                                      !.f1 = _function(solver.function, x1)]
         ELSE LET a == solver.x1
                  x2 == RAdd(a, RMul(ratio, h))
              IN  solver' = [s EXCEPT !.a = a, !.x1 = solver.x2, !.f1 = solver.f2,
                                      !.x2 = x2,
                                      !.f2 = _function(solver.function, x2)]
  /\ UNCHANGED <<pc, ret>>
  /\ SolverFrame

\* the loop of GoldenSection::solve ends and solve returns
GoldenReturn ==
  /\ op = "golden" /\ pc = "gs_loop"
  /\ ~GoldenContinues
  /\ LET max_iterations == AfterCondition
         solution == RDiv(RAdd(solver.a, solver.b), Two)
         error == RDiv(solver.h, Two)
     IN  /\ solver' = [solver EXCEPT !.max_iterations = max_iterations]
         /\ ret' = IF max_iterations = 0 /\ RLt(solver.tolerance, solver.h)
                   THEN OptimizerResult(solution, error,
                          "Maximum number of iterations reached without convergence.")
                   ELSE OptimizerResult(solution, error, nullopt)
  /\ pc' = "done"
  /\ SolverFrame

\* a GoldenSection object right after its constructor
GoldenSectionObject(fn, lower_bound, upper_bound) ==
  [method |-> "golden", function |-> fn, _lower_bound |-> lower_bound,
   _upper_bound |-> upper_bound, tolerance |-> Zero, limit |-> 0,
   max_iterations |-> 0, iterations |-> 0, a |-> Zero, b |-> Zero, h |-> Zero,
   x1 |-> Zero, x2 |-> Zero, f1 |-> Zero, f2 |-> Zero]

InitGolden ==
  /\ op = "golden" /\ pc = "idle" /\ err = "none"
  /\ T = "double" /\ B = BLOCK_SIZE
  /\ matrix = EmptyMatrix
  /\ given = EmptyMatrix
  /\ ResultType = "void"
  /\ full_Q = FALSE /\ full_R = FALSE /\ native = FALSE
  /\ NoFactors
  /\ \E fn \in Functions \ {"root2"}, lower_bound \in Endpoints, upper_bound \in Endpoints :
       solver = GoldenSectionObject(fn, lower_bound, upper_bound)

NextGolden ==
  \/ GoldenSolve
  \/ GoldenIteration
  \/ GoldenReturn

SpecGolden == InitGolden /\ [][NextGolden]_vars

\* solve has returned after making as many iterations as the limit allows
Exhausted ==
  /\ pc = "done"
  /\ solver.limit >= 0
  /\ solver.iterations = solver.limit

\* C25: when GoldenSection::solve has used up its iteration limit and the
\* bracket is still wider than the tolerance, the result it returns carries an
\* error message.
C25_ExhaustedLimitIsReported ==
  (op = "golden" /\ Exhausted /\ RLt(solver.tolerance, solver.h))
    => ret.error_message # nullopt

-----------------------------------------------------------------------------
(* Claims about the pivot choice of plu *)

\* the lowest row among rows col..n-1 of M that holds the largest magnitude of
\* column col
LargestRow(M, col) ==
  CHOOSE p \in col .. M.rows - 1 :
    /\ \A j \in col .. M.rows - 1 : RLe(RAbs(At(M, j, col)), RAbs(At(M, p, col)))
    /\ \A j \in col .. p - 1 : RLt(RAbs(At(M, j, col)), RAbs(At(M, p, col)))

\* a step that settles the pivot of column i: the row it brings to position i
\* is the lowest row of largest magnitude, and the two rows change places
PivotIsLargest ==
  (pc = "plu_pivot" /\ pc' = "plu_elim") =>
    LET p == LargestRow(_U, i)
    IN  /\ \A c \in 0 .. _U.cols - 1 :
             /\ At(_U', i, c) = At(_U, p, c)
             /\ At(_U', p, c) = At(_U, i, c)
        /\ P'[i + 1] = P[p + 1]
        /\ \A j \in i .. _U.rows - 1 : RLe(RAbs(At(_U', j, i)), RAbs(At(_U', i, i)))

\* every multiplier stored below the diagonal of L so far
MultipliersBounded ==
  op = "plu" =>
    \A k \in 1..Len(L.data) :
      RowOf(L, k) > ColOf(L, k) => RLe(RAbs(L.data[k]), One)

\* C26: at every column i that plu processes, the pivot row is the lowest row
\* of largest magnitude in column i among rows i..n-1 of the working matrix,
\* and so every multiplier below the diagonal of L has magnitude at most 1.
C26_PivotIsLargestAndMultipliersBounded ==
  [][PivotIsLargest]_vars /\ []MultipliersBounded

\* plu has returned after exchanging rows, with a multiplier of magnitude 1
\* (a tie in its column) and a smaller one in L
C26_Witness ==
  /\ op = "plu" /\ pc = "done"
  /\ \E k \in 1..Len(P) : P[k] # k - 1
  /\ \E k \in 1..Len(L.data) : RowOf(L, k) > ColOf(L, k) /\ RAbs(L.data[k]) = One
  /\ \E k \in 1..Len(L.data) :
       /\ RowOf(L, k) > ColOf(L, k)
       /\ RLt(Zero, RAbs(L.data[k])) /\ RLt(RAbs(L.data[k]), One)

-----------------------------------------------------------------------------
(* Claims about the panel width of plu *)

\* the outcome of _plu on a non-empty square matrix when one panel spans all
\* columns (B >= n): columns col..n-2 pivoted and eliminated in turn over the
\* whole width, then the final check and the extraction of U
RECURSIVE Unblocked(_, _, _, _)
Unblocked(M, Pm, Lm, col) ==
  IF col >= M.rows - 1
  THEN IF is_close(At(M, M.rows - 1, M.rows - 1), Zero, PIVOT_TOL_INV)
       THEN [kind |-> SingularError]
       ELSE [kind |-> "returned", P |-> Pm, L |-> Lm, U |-> ExtractU(M)]
  ELSE LET best == FindPivot(M, col, col + 1, <<RAbs(At(M, col, col)), col>>)
           pivot_row == best[2]
           Ms == IF pivot_row # col THEN SwapRowPrefix(M, col, pivot_row, M.cols) ELSE M
           Ps == IF pivot_row # col THEN SwapEntries(Pm, col, pivot_row) ELSE Pm
           Ls == IF pivot_row # col /\ col > 0
                 THEN SwapRowPrefix(Lm, col, pivot_row, col) ELSE Lm
       IN  IF is_close(best[1], Zero, PIVOT_TOL_INV)
           THEN [kind |-> SingularError]
           ELSE Unblocked(EliminateU(Ms, col, M.rows), Ps, EliminateL(Ls, Ms, col),
                          col + 1)

\* plu on the given matrix with B >= n
UnblockedPlu ==
  Unblocked(cast(given), [k \in 1..given.rows |-> k - 1], identity_matrix(given.rows), 0)

\* C27: for every block size B and every square input, plu returns the same
\* P, L and U as the unblocked column-by-column elimination (B >= n).
C27_PanelWidthDoesNotMatter ==
  (op = "plu" /\ pc = "done" /\ given.rows > 0)
    => UnblockedPlu = [kind |-> "returned", P |-> P, L |-> L, U |-> U]

-----------------------------------------------------------------------------
(* Claims about the arithmetic of Matrix::view *)

\* C28: whatever size_t values row, col, height and width have, wrapping sums
\* included, a view returned by Matrix::view on a matrix with a whole buffer
\* addresses only elements of that buffer, and its window lies wholly inside
\* the parent.
C28_ReturnedViewStaysInside ==
  (op = "views" /\ mv # NoView /\ Len(matrix.data) = matrix.rows * matrix.cols) =>
    /\ window.row + window.height <= matrix.rows
    /\ window.col + window.width <= matrix.cols
    /\ \A r \in 0 .. mv.rows - 1, c \in 0 .. mv.cols - 1 :
         ViewPosition(mv, r, c) < Len(matrix.data)

-----------------------------------------------------------------------------
(* Claims about the full and the thin factors of QR_decompostion *)

\* the reflectors of all columns, stored in place, and their scalars: the
\* column loop of the manual path, or geqrf
RECURSIVE Reflected(_, _, _, _)
Reflected(W, taus, c, lapack) ==
  IF c >= Min(W.rows, W.cols) THEN [A |-> W, tau |-> taus]
  ELSE LET h == IF lapack THEN larfg(W, c) ELSE householder_column(W, c)
       IN  Reflected(ApplyReflector(h, c), [taus EXCEPT ![c + 1] = h.tau], c + 1, lapack)

\* what QR_decompostion(A, true, true) returns
FullFactors(A, lapack) ==
  LET h == Reflected(cast(A), [t \in 1..Min(A.rows, A.cols) |-> Zero], 0, lapack)
  IN  [Q |-> orgqr(identity_matrix(A.rows), h.A, h.tau, 0), R |-> GetR(h.A, A.rows)]

\* X has the given shape and agrees with Y wherever it has an element
LeadingPart(X, rows, cols, Y) ==
  /\ X.rows = rows /\ X.cols = cols /\ Len(X.data) = rows * cols
  /\ \A r \in 0 .. rows - 1, c \in 0 .. cols - 1 : At(X, r, c) = At(Y, r, c)

\* C29: for the same input, whatever the other flag is, the Q returned with
\* full_Q = false is the first k = min(m, n) columns of the Q returned with
\* full_Q = true, the R returned with full_R = false is the first k rows of
\* the R returned with full_R = true, and the rows of the full R from row k
\* on are zero.
C29_ThinIsLeadingPartOfFull ==
  QRReturned =>
    LET full == FullFactors(given, native)
    IN  /\ LeadingPart(Q, qr_m, IF full_Q THEN qr_m ELSE qr_k, full.Q)
        /\ LeadingPart(R, IF full_R THEN qr_m ELSE qr_k, qr_n, full.R)
        /\ \A r \in qr_k .. qr_m - 1, c \in 0 .. qr_n - 1 : At(full.R, r, c) = Zero

\* a tall matrix with a reflector in every column was factorized on the
\* manual path into a thin Q and a thin R, both smaller than the full ones
C29_Witness ==
  /\ QRReturned /\ ~native /\ ~full_Q /\ ~full_R
  /\ qr_m > qr_n /\ qr_n > 1
  /\ \A t \in 1..Len(tau) : tau[t] # Zero
  /\ Q.cols < FullFactors(given, native).Q.cols
  /\ R.rows < FullFactors(given, native).R.rows

-----------------------------------------------------------------------------
(* Bisection::solve *)

\* NAN
NAN == "nan"

\* a Bisection object right after its constructor
BisectionObject(fn, lower_bound, upper_bound) ==
  [method |-> "bisection", function |-> fn, _lower_bound |-> lower_bound,
   _upper_bound |-> upper_bound, tolerance |-> Zero, limit |-> 0,
   max_iterations |-> 0, iterations |-> 0, a |-> Zero, b |-> Zero,
   fa |-> Zero, fb |-> Zero, c |-> Zero, fc |-> Zero]

\* |v| < std::numeric_limits<T>::epsilon()
below_epsilon(v) == LtInv(RAbs(v), FLT_EPSILON_INV)

\* Bisection::solve up to the loop: the sign check at the interval ends
BisectionSolve ==
  /\ op = "bisection" /\ pc = "idle"
  /\ \E tolerance \in Tolerances, max_iterations \in 0 .. MaxIterations :
       LET a == Int2Rat(solver._lower_bound)
           b == Int2Rat(solver._upper_bound)
           fa == _function(solver.function, a)
           fb == _function(solver.function, b)
           entered == [solver EXCEPT !.tolerance = tolerance,
                                     !.limit = max_iterations,
                                     !.max_iterations = max_iterations,
                                     !.a = a, !.b = b, !.fa = fa, !.fb = fb,
                                     !.c = a, !.fc = fa]
       IN  /\ solver' = entered
           /\ IF RLt(Zero, RMul(fa, fb))
              THEN /\ pc' = "done"
                   /\ ret' = OptimizerResult(NAN, NAN,
                               "Function has the same sign at the interval endpoints.")
              ELSE /\ pc' = "bs_loop"
                   /\ ret' = ret
  /\ SolverFrame

\* one iteration of the loop of Bisection::solve: the midpoint, the return
\* on convergence, else the half that is kept
BisectionIteration ==
  /\ op = "bisection" /\ pc = "bs_loop"
  /\ solver.max_iterations > 0
  /\ LET c == RDiv(RAdd(solver.a, solver.b), Two)
         fc == _function(solver.function, c)
         s == [solver EXCEPT !.max_iterations = @ - 1, !.iterations = @ + 1,
                             !.c = c, !.fc = fc]
     IN  IF below_epsilon(fc) \/ RLt(RDiv(RSub(solver.b, solver.a), Two), solver.tolerance)
         THEN /\ pc' = "done"
              /\ solver' = s
              /\ ret' = OptimizerResult(c, RAbs(fc), nullopt)
         ELSE /\ pc' = "bs_loop"
              /\ solver' = IF RLt(RMul(solver.fa, fc), Zero)
                           THEN [s EXCEPT !.b = c, !.fb = fc]
                           ELSE [s EXCEPT !.a = c, !.fa = fc]
              /\ ret' = ret
  /\ SolverFrame

\* the iterations are used up: the loop ends (the counter, unsigned, wraps and
\* is not read again) and solve returns the last midpoint with a message
BisectionReturn ==
  /\ op = "bisection" /\ pc = "bs_loop"
  /\ solver.max_iterations = 0
  /\ pc' = "done"
  /\ ret' = OptimizerResult(solver.c, RAbs(solver.fc),
                            "Maximum iterations reached without convergence.")
  /\ UNCHANGED solver
  /\ SolverFrame

InitBisection ==
  /\ op = "bisection" /\ pc = "idle" /\ err = "none"
  /\ T = "double" /\ B = BLOCK_SIZE
  /\ matrix = EmptyMatrix
  /\ given = EmptyMatrix
  /\ ResultType = "void"
  /\ full_Q = FALSE /\ full_R = FALSE /\ native = FALSE
  /\ NoFactors
  /\ \E fn \in Functions, lower_bound \in Endpoints, upper_bound \in Endpoints :
       solver = BisectionObject(fn, lower_bound, upper_bound)

NextBisection ==
  \/ BisectionSolve
  \/ BisectionIteration
  \/ BisectionReturn

SpecBisection == InitBisection /\ [][NextBisection]_vars

\* the values of f at the ends of the bracket do not have the same sign
Bracketed ==
  RLe(RMul(_function(solver.function, solver.a), _function(solver.function, solver.b)),
      Zero)

\* C30: once Bisection::solve has passed the sign check, the bracket [a, b]
\* satisfies f(a) * f(b) <= 0 at the start of every iteration, a result
\* without an error message is a point where f vanishes or the midpoint of a
\* bracket with a sign change and of half-width below the tolerance, and
\* solve never makes more than max_iterations iterations.
C30_BracketKeepsSignChange ==
  (op = "bisection") =>
    /\ (pc = "bs_loop" /\ solver.max_iterations > 0) => Bracketed
    /\ (pc = "done" /\ ret.error_message = nullopt) =>
         \/ below_epsilon(_function(solver.function, ret.solution))
         \/ /\ Bracketed
            /\ ret.solution = RDiv(RAdd(solver.a, solver.b), Two)
            /\ RLt(RDiv(RSub(solver.b, solver.a), Two), solver.tolerance)
    /\ (pc # "idle") => solver.iterations <= solver.limit

====
